---- MODULE Spec2Model ----
(***************************************************************************)
(* LeadScout: the scrape() pipelines of YellowPagesScraper and             *)
(* MantaScraper (navigation, protection-bypass ladder, batched concurrent  *)
(* listing extraction, session de-duplication, profile pages, CSV export   *)
(* and the guaranteed browser teardown).                                   *)
(*                                                                         *)
(* The browser driver (puppeteer) is the environment: every awaited driver *)
(* call either resolves or rejects, and what the page shows (title, DOM)   *)
(* is chosen when a navigation or reload completes.  Awaits of concurrent  *)
(* listing tasks resolve in any order; JavaScript runs each continuation   *)
(* to its next await without interruption, so one action is one            *)
(* continuation.                                                           *)
(***************************************************************************)
EXTENDS Integers, Sequences, FiniteSets, TLC

\* ------------------------------------------------------------------ bounds

\* A Yellow Pages results page holds 0..MaxListings listings of the catalogue.
MaxListings == 2
\* Long pages hold BatchSize+1 .. BatchSize+MaxExtra listings (two batches).
MaxExtra == 1
\* A Manta results page holds 0..MaxMantaListings listings.
MaxMantaListings == 1
\* options.maxPages handed to MantaScraper.scrape is drawn from 1..MaxPagesOpt.
MaxPagesOpt == 2

\* exportContacts / appendContacts are handed 0..MaxRows contacts, and a file
\* is appended to while it holds at most MaxRows records afterwards.
MaxRows == 2
\* A text holds up to MaxMatches matches of each pattern of the extractor.
MaxMatches == 2

\* A listing element holds up to MaxNodes descendants that bear on the hidden
\* email.
MaxNodes == 2

\* Up to MaxMatching of the listing selectors match elements of a page.
MaxMatching == 2

\* --------------------------------------------------------- program constants

\* const batchSize = 5
BatchSize == 5
\* Strategy 1 .. Strategy 4 of handleProtectionPage
NumStrategies == 4

\* ------------------------------------------------------------------ strings

\* JavaScript's a || b on strings: the first non-empty operand.
Or(a, b) == IF a # "" THEN a ELSE b

\* Page titles the driver may report, and the marker test of scrape() /
\* handleProtectionPage: title.includes('Attention Required') ||
\* title.includes('Cloudflare') || title.includes('Just a moment').
Titles == {"Restaurants in Anchorage", "Just a moment...",
           "Attention Required! | Cloudflare"}

IsProtectionTitle(t) ==
    \/ t = "Just a moment..."                    \* includes('Just a moment')
    \/ t = "Attention Required! | Cloudflare"    \* includes('Attention Required'), includes('Cloudflare')

\* -------------------------------------------------------- Contact Extractor

\* [...new Set(xs)]: the first occurrence of every value, in order.
RECURSIVE Dedup(_)
Dedup(xs) ==
    IF xs = <<>> THEN <<>>
    ELSE LET front == Dedup(SubSeq(xs, 1, Len(xs) - 1))
             last  == xs[Len(xs)]
         IN  IF \E k \in 1..Len(front) : front[k] = last
             THEN front ELSE Append(front, last)

\* The characters of the phone texts used below.
Chars(s) ==
    CASE s = "(907) 555-1234" -> <<"(", "9", "0", "7", ")", " ", "5", "5", "5", "-", "1", "2", "3", "4">>
      [] s = "907-555-1234"   -> <<"9", "0", "7", "-", "5", "5", "5", "-", "1", "2", "3", "4">>
      [] s = "907.555.1234"   -> <<"9", "0", "7", ".", "5", "5", "5", ".", "1", "2", "3", "4">>
      [] s = "1-907-555-1234" -> <<"1", "-", "9", "0", "7", "-", "5", "5", "5", "-", "1", "2", "3", "4">>
      [] s = "155-555-1234"   -> <<"1", "5", "5", "-", "5", "5", "5", "-", "1", "2", "3", "4">>
      [] s = "9075551234"     -> <<"9", "0", "7", "5", "5", "5", "1", "2", "3", "4">>
      [] s = "(907) 555-9876" -> <<"(", "9", "0", "7", ")", " ", "5", "5", "5", "-", "9", "8", "7", "6">>
      [] s = "9075559876"     -> <<"9", "0", "7", "5", "5", "5", "9", "8", "7", "6">>
      [] s = "555551234"      -> <<"5", "5", "5", "5", "5", "1", "2", "3", "4">>

\* \d
Digit == {"0", "1", "2", "3", "4", "5", "6", "7", "8", "9"}

\* The characters put together again.
RECURSIVE Concat(_)
Concat(cs) == IF cs = <<>> THEN "" ELSE Head(cs) \o Concat(Tail(cs))

\* phone.replace(/\D/g, '').replace(/^1/, ''): the digits of the match,
\* without a leading 1.
StripPhone(raw) ==
    LET digits == SelectSeq(Chars(raw), LAMBDA c : c \in Digit)
    IN  Concat(IF digits # <<>> /\ Head(digits) = "1" THEN Tail(digits) ELSE digits)

\* `(${p.slice(0,3)}) ${p.slice(3,6)}-${p.slice(6)}` for the 10-digit values.
SlicePhone(p) ==
    CASE p = "9075551234" -> "(907) 555-1234"
      [] p = "9075559876" -> "(907) 555-9876"
      [] OTHER            -> "(" \o p \o ")"

\* A listing's or profile page's text is kept as what the patterns match in
\* it, in text order: [emails, phones, altPhones, names].
NoText == [emails |-> <<>>, phones |-> <<>>, altPhones |-> <<>>, names |-> <<>>]

extractEmails(text) == Dedup(text.emails)

\* Variant: the cleaned numbers are kept whatever their length.
extractPhonesAnyLength(text) ==
    LET phones  == text.phones \o text.altPhones
        cleaned == [k \in 1..Len(phones) |-> StripPhone(phones[k])]
    IN  Dedup(cleaned)

extractPhones(text) ==
    LET phones  == text.phones \o text.altPhones
        cleaned == [k \in 1..Len(phones) |-> StripPhone(phones[k])]
    IN  Dedup(SelectSeq(cleaned, LAMBDA p : Len(p) = 10))

extractNames(text) == Dedup(text.names)

\* cleanData: strings are trimmed (the values here carry no outer blanks) and
\* a 10-character phone is formatted.
cleanData(c) ==
    IF c.phone # "" /\ Len(c.phone) = 10
    THEN [c EXCEPT !.phone = SlicePhone(c.phone)] ELSE c

\* The object extractAllContacts builds; a property the code never sets reads
\* as undefined, which || and ! treat like the empty string.
RawContact(email, phone, fullName, source) ==
    [businessName |-> "", website |-> "", address |-> "", email |-> email,
     phone |-> phone, fullName |-> fullName, firstName |-> "", lastName |-> "",
     source |-> source]

FirstOr(xs) == IF xs = <<>> THEN "" ELSE xs[1]

extractAllContacts(text, source) ==
    LET emails == extractEmails(text)
        phones == extractPhones(text)
        names  == extractNames(text)
    IN  IF Len(emails) > 0
        THEN [k \in 1..Len(emails) |->
                cleanData(RawContact(emails[k], FirstOr(phones), FirstOr(names), source))]
        ELSE IF Len(phones) > 0 \/ Len(names) > 0
        THEN << cleanData(RawContact("", FirstOr(phones), FirstOr(names), source)) >>
        ELSE <<>>

\* ------------------------------------------------------------------ listings

\* What extractBusinessInfo / extractHiddenEmail / scrapeBusinessProfile read
\* from one listing element (and, for Manta, from the profile page it links).
Listing(name, phone, address, text, hidden, url, profileText) ==
    [businessName |-> name, phone |-> phone, address |-> address, website |-> "",
     fullText |-> text, hiddenEmail |-> hidden, businessUrl |-> url,
     profileText |-> profileText, profileEmail |-> "", contactName |-> ""]

\* No name and no phone.
LNone == Listing("", "", "", NoText, "", "", NoText)
\* Name only; the text matches nothing; a mailto: link is hidden in it.
LAcme == Listing("Acme", "", "", NoText, "info@acme.com", "", NoText)
\* The same name, phone and address as LAcme, but an e-mail in the text.
LAcmeMail == Listing("Acme", "", "", [NoText EXCEPT !.emails = <<"sales@acme.com">>],
                     "", "", NoText)
\* Phone and address, no name.
LPhone == Listing("", "(907) 555-1234", "3300 Arctic Blvd Ste 102Anchorage, AK 99503",
                  [NoText EXCEPT !.phones = <<"(907) 555-1234">>,
                                 !.names = <<"Arctic Blvd">>],
                  "", "", NoText)
\* Manta: the same identity as LAcme, with a profile page on manta.com.
LProfile == Listing("Acme", "", "", NoText, "", "https://www.manta.com/c/acme",
                    [NoText EXCEPT !.emails = <<"owner@acme.com">>,
                                   !.phones = <<"1-907-555-1234">>,
                                   !.altPhones = <<"907-555-1234">>])

Catalogue(src) ==
    IF src = "yellowpages" THEN {LNone, LAcme, LAcmeMail, LPhone}
    ELSE {LNone, LAcme, LProfile}

SeqsOf(S, lo, hi) == UNION {[1..n -> S] : n \in lo..hi}

\* The listing elements a results page may hold.
Pages(src) ==
    SeqsOf(Catalogue(src), 0,
           IF src = "yellowpages" THEN MaxListings ELSE MaxMantaListings)

\* Results pages of more than one batch: BatchSize+1 .. BatchSize+MaxExtra
\* listings of two businesses, the first two listings being one of each.
LBolt == Listing("Bolt", "", "", NoText, "", "", NoText)

LongPages ==
    {<<LBolt, LPhone>> \o rest :
        rest \in SeqsOf({LBolt, LPhone}, BatchSize - 1, BatchSize - 2 + MaxExtra)}

\* ------------------------------------------------- processBusinessListing

\* `${name || 'unknown'}_${phone || 'no-phone'}_${address || 'no-address'}`
BusinessId(info) ==
    Or(info.businessName, "unknown") \o "_" \o Or(info.phone, "no-phone")
        \o "_" \o Or(info.address, "no-address")

\* Variant: the guard left out.
HasIdentityUnchecked(info) == TRUE

\* if (!businessInfo.businessName && !businessInfo.phone) return [];
HasIdentity(info) == info.businessName # "" \/ info.phone # ""

\* The record pushed when the text yields no contact.
SynthContact(info, hiddenEmail, source) ==
    [RawContact(hiddenEmail, info.phone, "", source)
        EXCEPT !.businessName = info.businessName,
               !.website = info.website,
               !.address = info.address]

\* A contact as it leaves processBusinessListing: the extractor's value, else
\* the listing's, else ''; fullName / firstName / lastName are not copied.
EnhanceContact(contact, info, hiddenEmail, source) ==
    [businessName |-> Or(contact.businessName, info.businessName),
     website      |-> Or(contact.website, info.website),
     address      |-> Or(contact.address, info.address),
     email        |-> Or(contact.email, hiddenEmail),
     phone        |-> Or(contact.phone, info.phone),
     source       |-> Or(contact.source, source)]

\* Variant: a record is made up only for a listing that has a name.
WithFallbackNamed(contacts, info, hiddenEmail, source) ==
    IF Len(contacts) = 0 /\ info.businessName # ""
    THEN << SynthContact(info, hiddenEmail, source) >> ELSE contacts

\* contacts.length === 0 && (name || phone) ? [synthesized] : contacts
WithFallback(contacts, info, hiddenEmail, source) ==
    IF Len(contacts) = 0 /\ HasIdentity(info)
    THEN << SynthContact(info, hiddenEmail, source) >> ELSE contacts

EnhanceAll(contacts, info, hiddenEmail, source) ==
    [k \in 1..Len(contacts) |-> EnhanceContact(contacts[k], info, hiddenEmail, source)]

\* YellowPagesScraper.processBusinessListing from the extractor call to its
\* return value.
ListingContacts(info, hiddenEmail, source) ==
    EnhanceAll(WithFallback(extractAllContacts(info.fullText, source),
                            info, hiddenEmail, source),
               info, hiddenEmail, source)

\* MantaScraper.processBusinessListing: the merge of one profile contact into
\* allContacts (find by same email, or same non-empty phone; fill, else push).
MergeKeys == {"email", "phone", "fullName", "source"}

FillFrom(existing, profileContact) ==
    [f \in DOMAIN existing |->
        IF f \in MergeKeys /\ existing[f] = "" THEN profileContact[f] ELSE existing[f]]

SameContact(c, profileContact) ==
    c.email = profileContact.email
      \/ (c.phone = profileContact.phone /\ profileContact.phone # "")

MergeOne(allContacts, profileContact) ==
    LET hits == {k \in 1..Len(allContacts) : SameContact(allContacts[k], profileContact)}
    IN  IF hits = {} THEN Append(allContacts, profileContact)
        ELSE LET k == CHOOSE m \in hits : \A n \in hits : m <= n
             IN  [allContacts EXCEPT ![k] = FillFrom(allContacts[k], profileContact)]

RECURSIVE MergeProfile(_, _)
MergeProfile(allContacts, profileContacts) ==
    IF profileContacts = <<>> THEN allContacts
    ELSE MergeProfile(MergeOne(allContacts, Head(profileContacts)), Tail(profileContacts))

\* if (profileDetails.email) every contact without an e-mail gets it.
FillEmail(allContacts, email) ==
    [k \in 1..Len(allContacts) |->
        IF allContacts[k].email = "" /\ email # ""
        THEN [allContacts[k] EXCEPT !.email = email] ELSE allContacts[k]]

\* businessUrl.includes('manta.com'), for the URLs of the catalogue.
IsMantaUrl(url) == url = "https://www.manta.com/c/acme"

\* ------------------------------------------------------------- CSV exporter

\* An address is kept as its characters.
Upper == {"A", "B", "C", "D", "E", "F", "G", "H", "I", "J", "K", "L", "M",
          "N", "O", "P", "Q", "R", "S", "T", "U", "V", "W", "X", "Y", "Z"}
Lower == {"a", "b", "c", "d", "e", "f", "g", "h", "i", "j", "k", "l", "m",
          "n", "o", "p", "q", "r", "s", "t", "u", "v", "w", "x", "y", "z"}
\* [a-zA-Z\s] and \w
CityChar == Upper \cup Lower \cup {" "}
WordChar == Upper \cup Lower \cup Digit \cup {"_"}

\* trim()
Trim(cs) ==
    LET ix == {k \in DOMAIN cs : cs[k] # " "}
    IN  IF ix = {} THEN <<>>
        ELSE SubSeq(cs, CHOOSE k \in ix : \A m \in ix : k <= m,
                        CHOOSE k \in ix : \A m \in ix : m <= k)

\* cs[lo..hi] are all in the class.
AllIn(cs, lo, hi, class) == \A k \in lo..hi : cs[k] \in class

\* The first character of the blanks that end at hi (hi + 1 if cs[hi] is
\* not a blank).
RECURSIVE BlanksFrom(_, _)
BlanksFrom(cs, hi) ==
    IF hi >= 1 /\ cs[hi] = " " THEN BlanksFrom(cs, hi - 1) ELSE hi + 1

\* The last character of the blanks that begin at lo (lo - 1 if cs[lo] is
\* not a blank).
RECURSIVE BlanksTo(_, _)
BlanksTo(cs, lo) ==
    IF lo <= Len(cs) /\ cs[lo] = " " THEN BlanksTo(cs, lo + 1) ELSE lo - 1

\* ([A-Z]{2})\s*(\d{5}(?:-\d{4})?)$ : where the state and the ZIP code begin
\* at the end of the address (0: the address does not end so).
StateZip(cs) ==
    LET n == Len(cs)
        zip == IF n >= 10 /\ cs[n - 4] = "-" /\ AllIn(cs, n - 3, n, Digit)
                         /\ AllIn(cs, n - 9, n - 5, Digit) THEN n - 9
               ELSE IF n >= 5 /\ AllIn(cs, n - 4, n, Digit) THEN n - 4
               ELSE 0
        state == IF zip = 0 THEN 0 ELSE BlanksFrom(cs, zip - 1) - 2
    IN  IF zip # 0 /\ state >= 1 /\ AllIn(cs, state, state + 1, Upper)
        THEN [state |-> state, zip |-> zip] ELSE [state |-> 0, zip |-> 0]

\* Where the city group ends: before `,\s*` (comma) or before `\s+` in front
\* of the state (0: no such separator).
CityEnd(cs, comma) ==
    LET state == StateZip(cs).state
        sep == IF state = 0 THEN 0 ELSE BlanksFrom(cs, state - 1)
    IN  IF state = 0 THEN 0
        ELSE IF comma THEN (IF sep >= 2 /\ cs[sep - 1] = "," THEN sep - 2 ELSE 0)
        ELSE (IF sep < state THEN state - 2 ELSE 0)

\* ([A-Z][a-zA-Z\s]+) ending at e: the places it can begin.
CityStarts(cs, e) ==
    {p \in 1..(e - 1) : cs[p] \in Upper /\ AllIn(cs, p + 1, e, CityChar)}

\* (?:Ste|Suite|Unit|Apt|#) at k: the place after it (0: none there).
KeywordEnd(cs, k) ==
    LET at(w) == k + Len(w) - 1 <= Len(cs) /\ SubSeq(cs, k, k + Len(w) - 1) = w
    IN  IF at(<<"S", "t", "e">>) THEN k + 3
        ELSE IF at(<<"S", "u", "i", "t", "e">>) THEN k + 5
        ELSE IF at(<<"U", "n", "i", "t">>) THEN k + 4
        ELSE IF at(<<"A", "p", "t">>) THEN k + 3
        ELSE IF at(<<"#">>) THEN k + 1
        ELSE 0

\* ^(.+?)\s+((?:Ste|Suite|Unit|Apt|#)\s*\w+)([A-Z][a-zA-Z\s]+) up to e: the
\* matches as [k: where the suite begins, c: where the city begins].
SuiteMatches(cs, e) ==
    {m \in [k : 3..Len(cs), c : CityStarts(cs, e)] :
        /\ cs[m.k - 1] = " "
        /\ KeywordEnd(cs, m.k) # 0
        /\ LET q == BlanksTo(cs, KeywordEnd(cs, m.k)) + 1
           IN  q < m.c /\ AllIn(cs, q, m.c - 1, WordChar)}

\* `${street}, ${city}, ${state} ${zip}`, with the suite between street and
\* city where there is one (<<>>: none).
Formatted(street, suite, city, state, zip) ==
    Trim(street) \o <<",", " ">>
      \o (IF suite = <<>> THEN <<>> ELSE Trim(suite) \o <<",", " ">>)
      \o Trim(city) \o <<",", " ">> \o Trim(state) \o <<" ">> \o Trim(zip)

\* The rewrite under one of the two suite patterns: the lazy street is the
\* shortest, the greedy \w+ the longest that match.
SuiteRewrite(cs, e) ==
    LET ms == SuiteMatches(cs, e)
        m  == CHOOSE x \in ms : \A y \in ms : x.k < y.k \/ (x.k = y.k /\ x.c >= y.c)
        sz == StateZip(cs)
    IN  Formatted(SubSeq(cs, 1, m.k - 1), SubSeq(cs, m.k, m.c - 1),
                  SubSeq(cs, m.c, e), SubSeq(cs, sz.state, sz.state + 1),
                  SubSeq(cs, sz.zip, Len(cs)))

\* The rewrite under simplePattern (minBefore = 1, blank = FALSE) or
\* basicPattern (a blank before the city, a character before the blank).
CityRewrite(cs, e, basic) ==
    LET ps == {p \in CityStarts(cs, e) :
                  IF basic THEN p >= 3 /\ cs[p - 1] = " " ELSE p >= 2}
        p  == CHOOSE x \in ps : \A y \in ps : x <= y
        sz == StateZip(cs)
        street == Trim(SubSeq(cs, 1, p - 1))
    IN  IF ~basic /\ street # <<>> /\ street[Len(street)] = ","
        THEN cs
        ELSE Formatted(street, <<>>, SubSeq(cs, p, e),
                       SubSeq(cs, sz.state, sz.state + 1), SubSeq(cs, sz.zip, Len(cs)))

\* Some city begins where the pattern allows it.
CityMatches(cs, e, basic) ==
    \E p \in CityStarts(cs, e) : IF basic THEN p >= 3 /\ cs[p - 1] = " " ELSE p >= 2

\* formatAddress on the characters: the four patterns in their order.
formatAddressChars(address) ==
    LET cs == Trim(address)
        ec == CityEnd(cs, TRUE)
        en == CityEnd(cs, FALSE)
    IN  IF ec > 0 /\ SuiteMatches(cs, ec) # {} THEN SuiteRewrite(cs, ec)
        ELSE IF en > 0 /\ SuiteMatches(cs, en) # {} THEN SuiteRewrite(cs, en)
        ELSE IF ec > 0 /\ CityMatches(cs, ec, FALSE) THEN CityRewrite(cs, ec, FALSE)
        ELSE IF en > 0 /\ CityMatches(cs, en, TRUE) THEN CityRewrite(cs, en, TRUE)
        ELSE cs

\* The characters of the address of the catalogue.
AddressChars(a) ==
    CASE a = "3300 Arctic Blvd Ste 102Anchorage, AK 99503" ->
            <<"3", "3", "0", "0", " ", "A", "r", "c", "t", "i", "c", " ", "B", "l", "v", "d", " ", "S", "t", "e", " ", "1", "0", "2", "A", "n", "c", "h", "o", "r", "a", "g", "e", ",", " ", "A", "K", " ", "9", "9", "5", "0", "3">>

\* formatAddress: '' for no address, else the rewrite of the patterns.
formatAddress(a) ==
    IF a = "" THEN "" ELSE Concat(formatAddressChars(AddressChars(a)))

\* contact[header] || '' for a header the contact may lack.
FieldOr(contact, header) ==
    IF header \in DOMAIN contact THEN contact[header] ELSE ""

\* normalizedContacts of exportContacts: sno = index + 1, formatted address.
ExportRows(contacts) ==
    [k \in 1..Len(contacts) |->
        [sno |-> k, businessName |-> contacts[k].businessName,
         website |-> contacts[k].website,
         address |-> formatAddress(contacts[k].address),
         email |-> contacts[k].email, phone |-> contacts[k].phone,
         source |-> contacts[k].source, scrapedAt |-> FieldOr(contacts[k], "scrapedAt")]]

\* config.output.directory
OutputDir == "./output"

\* A location string is kept as its comma-separated parts, each part as its
\* blank-separated words: "New York, NY" is <<<<"New", "York">>, <<"NY">>>>;
\* no location (null) is <<>>.
NoLocation == <<>>
LocAustin  == << <<"Austin">>, <<"TX">> >>
LocNewYork == << <<"New", "York">>, <<"NY">> >>

\* The words of a part joined by `sep`.
RECURSIVE JoinWords(_, _)
JoinWords(ws, sep) ==
    IF ws = <<>> THEN ""
    ELSE IF Len(ws) = 1 THEN ws[1]
    ELSE ws[1] \o sep \o JoinWords(Tail(ws), sep)

\* getSourceFolderName (exporter and merger alike)
getSourceFolderName(src) ==
    CASE src = "yellowpages" -> "YellowPages"
      [] src = "manta"       -> "Manta"
      [] OTHER               -> src

\* getLocationFolderName: `${city} ${state}` of the trimmed parts.
getLocationFolderName(location) ==
    IF location = <<>> THEN "Unknown"
    ELSE IF Len(location) >= 2
    THEN JoinWords(location[1], " ") \o " " \o JoinWords(location[2], " ")
    ELSE JoinWords(location[1], " ")

\* path.join
PathJoin(a, b) == a \o "/" \o b

\* ensureOutputDir: the target directory of an export.
ensureOutputDir(src, location) ==
    IF src # "" /\ location # <<>>
    THEN PathJoin(PathJoin(OutputDir, getSourceFolderName(src)),
                  getLocationFolderName(location))
    ELSE OutputDir

\* generateFilename, kept as the "_"-separated pieces of the name before
\* ".csv": the city and the state lose their blanks; page 0 stands for no
\* page number, where the name ends with a time stamp.
generateFilename(src, pageNumber, location) ==
    LET locationPart ==
            IF location = <<>> THEN <<>>
            ELSE IF Len(location) >= 2
            THEN <<JoinWords(location[1], ""), JoinWords(location[2], "")>>
            ELSE <<JoinWords(location[1], "")>>
        last == IF pageNumber # 0 THEN "Page" \o ToString(pageNumber)
                ELSE "2026-01-01T00-00-00"
    IN  <<src>> \o locationPart \o <<"contacts", last>>

\* config.output.csvHeaders, each name as its first character and the rest.
csvHeaders ==
    <<[first |-> "s", rest |-> "no"], [first |-> "b", rest |-> "usinessName"],
      [first |-> "w", rest |-> "ebsite"], [first |-> "a", rest |-> "ddress"],
      [first |-> "e", rest |-> "mail"], [first |-> "p", rest |-> "hone"],
      [first |-> "s", rest |-> "ource"], [first |-> "s", rest |-> "crapedAt"]>>

\* toUpperCase() on the first characters of the headers.
ToUpperCase(c) ==
    CASE c = "s" -> "S" [] c = "b" -> "B" [] c = "w" -> "W"
      [] c = "a" -> "A" [] c = "e" -> "E" [] c = "p" -> "P"

\* The header line csv-writer puts out: the titles, title =
\* header.charAt(0).toUpperCase() + header.slice(1).
HeaderLine ==
    [k \in 1..Len(csvHeaders) |-> ToUpperCase(csvHeaders[k].first) \o csvHeaders[k].rest]

\* One record as the text csv-parser reads back, keyed by those titles.
WriteRecord(n) ==
    [Sno |-> ToString(n.sno), BusinessName |-> n.businessName,
     Website |-> n.website, Address |-> n.address, Email |-> n.email,
     Phone |-> n.phone, Source |-> n.source, ScrapedAt |-> n.scrapedAt]

WriteRecords(ns) == [k \in 1..Len(ns) |-> WriteRecord(ns[k])]

\* normalizedContacts of appendContacts: sno = startingSerialNumber + index.
AppendRows(contacts, start) ==
    [k \in 1..Len(contacts) |->
        [sno |-> start + k - 1, businessName |-> contacts[k].businessName,
         website |-> contacts[k].website,
         address |-> formatAddress(contacts[k].address),
         email |-> contacts[k].email, phone |-> contacts[k].phone,
         source |-> contacts[k].source, scrapedAt |-> FieldOr(contacts[k], "scrapedAt")]]

\* The line breaks inside a value (csv-writer quotes such a value and writes
\* it as it is), for the values of the contacts below.
LineBreaks(v) == IF v = "Acme\nPlumbing" THEN 1 ELSE 0

\* The lines one written record takes in the file.
RecordLines(row) ==
    1 + LineBreaks(row.BusinessName) + LineBreaks(row.Address)

RECURSIVE FileLines(_)
FileLines(rows) ==
    IF rows = <<>> THEN 0 ELSE RecordLines(Head(rows)) + FileLines(Tail(rows))

\* readContacts(filepath).length: the content is split at '\n' and every
\* non-blank line after the first counts as one contact.
readContactsLength(rows) == FileLines(rows)

\* ---------------------------------------------------------------- the state

VARIABLES
    source,              \* this.sourceName: "yellowpages" or "manta"
    maxPages,            \* options.maxPages (Manta)
    pc,                  \* where scrape() stands
    browser,             \* this.browser: "none", "open" or "closed"
    result,              \* "pending", "path", "null" (returned) or "error" (thrown)
    title,               \* what page.title() reports
    dom,                 \* the listing elements of the primary page
    strategy,            \* the bypass strategy handleProtectionPage is at
    ladder,              \* the strategies invoked so far, in order
    checks,              \* per title re-check of the ladder: was a marker seen
    ready,               \* the page is loaded and protection-free
    businessListings,    \* scrapePage's first query result
    batchStart,          \* scrapePage's loop variable
    taskPc,              \* per listing: "none", "skipped", "info", "email", "done"
    taskElem,            \* per listing: the element handle its task was given
    taskOut,             \* per listing: the array its task resolved to
    taskNote,            \* per listing: how its task ended
    processedCount,
    newContactsCount,
    processedBusinesses, \* this.processedBusinesses
    scrapedContacts,     \* this.scrapedContacts
    handled,             \* per processed listing, in the order added: identity and count
    csvFiles,            \* the CSV files written, each its rows
    secondary,           \* detail / profile pages currently open
    currentPage,         \* Manta's page loop
    listingIdx,          \* Manta's listing loop (1-based)
    allContacts,         \* Manta processBusinessListing's allContacts
    hiddenEmail,         \* Manta processBusinessListing's hiddenEmail
    navigations,         \* the outcomes of the navigateToUrl calls, in order
    disk,                \* the files under the output root, in listing order
    dirs,                \* the directories that exist under the output root
    ret,                 \* what the last exporter / merger call did
    prior,               \* the merge before the last one, if it had the same options
    arg,                 \* the argument a utility function is called with
    returned             \* what the call of the utility function returned

bypassVars  == <<title, strategy, ladder, checks, ready>>
taskVars    == <<taskPc, taskElem, taskOut, taskNote>>
pageVars    == <<businessListings, batchStart, processedCount, newContactsCount>>
sessionVars == <<processedBusinesses, scrapedContacts, handled>>
mantaVars   == <<currentPage, listingIdx, allContacts, hiddenEmail>>
fileVars    == <<disk, dirs, ret, prior>>
callVars    == <<arg, returned>>
scraperVars == <<source, maxPages, pc, browser, result, dom, csvFiles, secondary,
                 navigations, bypassVars, taskVars, pageVars, sessionVars, mantaVars>>
vars == <<scraperVars, fileVars, callVars>>

\* CSVExporter / XLSXMerger constructors: nothing written, no call made yet.
NoCall == [op |-> "none"]

\* No utility function has been called.
InitCalls == arg = NoCall /\ returned = NoCall

InitFiles ==
    /\ disk = <<>>
    /\ dirs = {}
    /\ ret = NoCall
    /\ prior = NoCall

\* A scrape() call about to run: its options, its locals, and the results
\* page the site will serve.  The two fields only the constructors assign
\* (processedBusinesses, scrapedContacts) are not set here.
ScrapeCall ==
    /\ source \in {"yellowpages", "manta"}
    /\ maxPages \in 1..MaxPagesOpt
    /\ pc = "init"
    /\ browser = "none"
    /\ result = "pending"
    /\ title = ""
    /\ dom \in Pages(source)
    /\ strategy = 0
    /\ ladder = <<>>
    /\ checks = <<>>
    /\ ready = FALSE
    /\ businessListings = <<>>
    /\ batchStart = 0
    /\ taskPc = <<>>
    /\ taskElem = <<>>
    /\ taskOut = <<>>
    /\ taskNote = <<>>
    /\ processedCount = 0
    /\ newContactsCount = 0
    /\ handled = <<>>
    /\ csvFiles = <<>>
    /\ secondary = 0
    /\ currentPage = 1
    /\ listingIdx = 0
    /\ allContacts = <<>>
    /\ hiddenEmail = ""
    /\ navigations = <<>>
    /\ InitFiles
    /\ InitCalls

\* The constructors (BaseScraper, YellowPagesScraper, MantaScraper) and the
\* first scrape() call on the new object.
Init ==
    /\ ScrapeCall
    /\ processedBusinesses = {}
    /\ scrapedContacts = <<>>

\* ------------------------------------------------- scrape(): try / finally

\* Where control goes when a statement inside scrape()'s try block throws or
\* returns: the finally block (await this.close()).
OnExit == "finally"

\* Variant: a throw that leaves scrape() without running its finally block.
ThrowUncleaned == pc' = "done" /\ result' = "error"

Throw == pc' = OnExit /\ result' = "error"

Return(v) == pc' = OnExit /\ result' = v

\* BaseScraper.close: if (this.browser) await this.browser.close()
CloseBrowser(b) == IF b # "none" THEN "closed" ELSE b

\* BaseScraper.init: puppeteer.launch may reject (no browser); newPage and the
\* page set-up calls after it may reject with the browser already launched.
InitBrowser ==
    /\ pc = "init"
    /\ \E o \in {"launchRejects", "setupRejects", "ok"} :
         /\ browser' = IF o = "launchRejects" THEN browser ELSE "open"
         /\ IF o = "ok" THEN pc' = "navigate" /\ result' = result ELSE Throw
    /\ UNCHANGED <<callVars, fileVars, navigations, source, maxPages, dom, csvFiles, secondary, bypassVars,
                   taskVars, pageVars, sessionVars, mantaVars>>

\* Variant: a failed navigation is tried once more.
NavFailedRetry ==
    IF Len(navigations) < 1 THEN pc' = "navigate" /\ result' = result ELSE Throw

\* scrape(): if (!success) throw new Error('Failed to load page ...')
NavFailed == Throw

\* BaseScraper.navigateToUrl (one page.goto; false when anything in it
\* rejects) and the `if (!success) throw` of scrape().
NavigateToUrl ==
    /\ pc = "navigate"
    /\ \E ok \in BOOLEAN :
         /\ navigations' = Append(navigations, ok)
         /\ IF ok
            THEN /\ title' \in (IF source = "yellowpages" THEN Titles
                                ELSE {"Restaurants in Anchorage"})
                 /\ pc' = IF source = "yellowpages" THEN "checkTitle" ELSE "mantaPage"
                 /\ result' = result
            ELSE NavFailed /\ title' = title
    /\ UNCHANGED <<callVars, fileVars, source, maxPages, browser, dom, csvFiles, secondary,
                   strategy, ladder, checks, ready,
                   taskVars, pageVars, sessionVars, mantaVars>>

\* -------------------------------------- protection detection and the ladder

\* scrape(): const pageTitle = await this.page.title(); marker => ladder.
CheckTitle ==
    /\ pc = "checkTitle"
    /\ \E ok \in BOOLEAN :
         IF ~ok THEN Throw /\ UNCHANGED <<strategy, ready>>
         ELSE IF IsProtectionTitle(title)
         THEN pc' = "bypassStep" /\ strategy' = 1 /\ UNCHANGED <<result, ready>>
         ELSE pc' = "scrapePage" /\ ready' = TRUE /\ UNCHANGED <<result, strategy>>
    /\ UNCHANGED <<callVars, fileVars, navigations, source, maxPages, browser, dom, csvFiles, secondary,
                   title, ladder, checks, taskVars, pageVars, sessionVars, mantaVars>>

\* One strategy of handleProtectionPage up to its title re-check: 1 wait,
\* 2 reload + wait, 3 longer wait, 4 wait + goto + wait.  A rejected driver
\* call lands in the catch (return false), and scrape() throws.
BypassStrategy ==
    /\ pc = "bypassStep"
    /\ \E ok \in BOOLEAN :
         IF ok
         THEN /\ ladder' = Append(ladder, strategy)
              /\ title' \in Titles
              /\ pc' = "bypassCheck"
              /\ result' = result
         ELSE Throw /\ UNCHANGED <<ladder, title>>
    /\ UNCHANGED <<callVars, fileVars, navigations, source, maxPages, browser, dom, csvFiles, secondary,
                   strategy, checks, ready, taskVars, pageVars, sessionVars, mantaVars>>

\* Variant: the title only counts after the last strategy.
LadderVerdictLate(t, k) ==
    IF k < NumStrategies THEN "next"
    ELSE IF ~IsProtectionTitle(t) THEN "bypassed" ELSE "failed"

\* Variant: an exhausted ladder counts as bypassed.
LadderVerdictLenient(t, k) ==
    IF ~IsProtectionTitle(t) \/ k >= NumStrategies THEN "bypassed" ELSE "next"

\* What the re-check after strategy k decides from the title it reads.
LadderVerdict(t, k) ==
    IF ~IsProtectionTitle(t) THEN "bypassed"
    ELSE IF k < NumStrategies THEN "next" ELSE "failed"

\* currentTitle = await this.page.title(); if (no marker) return true; ...
\* after strategy 4: return false, and scrape() throws 'Could not bypass'.
BypassCheck ==
    /\ pc = "bypassCheck"
    /\ \E ok \in BOOLEAN :
         IF ~ok THEN Throw /\ UNCHANGED <<checks, strategy, ready>>
         ELSE /\ checks' = Append(checks, IsProtectionTitle(title))
              /\ LET v == LadderVerdict(title, strategy)
                 IN  CASE v = "bypassed" ->
                            pc' = "scrapePage" /\ ready' = TRUE
                              /\ UNCHANGED <<result, strategy>>
                       [] v = "next" ->
                            pc' = "bypassStep" /\ strategy' = strategy + 1
                              /\ UNCHANGED <<result, ready>>
                       [] OTHER -> Throw /\ UNCHANGED <<strategy, ready>>
    /\ UNCHANGED <<callVars, fileVars, navigations, source, maxPages, browser, dom, csvFiles, secondary,
                   title, ladder, taskVars, pageVars, sessionVars, mantaVars>>

\* ------------------------------------------------ YellowPages scrapePage()

Min(a, b) == IF a < b THEN a ELSE b

\* The first page.$$ that matches: the listings found.  No listing => the
\* zero counters, for which scrape() returns null.
ScrapePageQuery ==
    /\ pc = "scrapePage"
    /\ \E ok \in BOOLEAN :
         IF ~ok THEN Throw /\ UNCHANGED <<businessListings, taskVars>>
         ELSE /\ businessListings' = dom
              /\ taskPc'   = [i \in 1..Len(dom) |-> "none"]
              /\ taskElem' = [i \in 1..Len(dom) |-> LNone]
              /\ taskOut'  = [i \in 1..Len(dom) |-> <<>>]
              /\ taskNote' = [i \in 1..Len(dom) |-> ""]
              /\ IF Len(dom) = 0 THEN Return("null") ELSE pc' = "batch" /\ result' = result
    /\ batchStart' = 0
    /\ processedCount' = 0
    /\ newContactsCount' = 0
    /\ UNCHANGED <<callVars, fileVars, navigations, source, maxPages, browser, dom, csvFiles, secondary, bypassVars,
                   sessionVars, mantaVars>>

\* The indices (1-based) the batch starting at `start` covers.
BatchRange(start, n) == (start + 1)..Min(start + BatchSize, n)

\* What page.$$(usedSelector) may find when it queries a page again that
\* showed the elements d: the same elements, or all but the last one (the
\* page dropped it in the meantime).
Requery(d) == {d} \cup (IF d = <<>> THEN {} ELSE {SubSeq(d, 1, Len(d) - 1)})

\* Top of the batch loop: re-query, then one processBusinessListing call per
\* index still present (an index past the re-queried list is skipped); each
\* call runs to its first await.
BatchBeginOn(queried) ==
    /\ pc = "batch"
    /\ \E ok \in BOOLEAN :
         IF ~ok THEN Throw /\ UNCHANGED <<taskPc, taskElem, dom>>
         ELSE \E current \in queried :
              LET range   == BatchRange(batchStart, Len(businessListings))
                  started == {i \in range : i <= Len(current)}
              IN  /\ dom' = current
                  /\ taskPc' = [i \in DOMAIN taskPc |->
                                  IF i \in started THEN "info"
                                  ELSE IF i \in range THEN "skipped" ELSE taskPc[i]]
                  /\ taskElem' = [i \in DOMAIN taskElem |->
                                  IF i \in started THEN current[i] ELSE taskElem[i]]
                  /\ pc' = "await"
                  /\ result' = result
    /\ UNCHANGED <<callVars, fileVars, navigations, source, maxPages, browser, csvFiles, secondary, bypassVars,
                   taskOut, taskNote, pageVars, sessionVars, mantaVars>>

BatchBegin == BatchBeginOn(Requery(dom))

TaskEnds(i, out, note) ==
    /\ taskPc' = [taskPc EXCEPT ![i] = "done"]
    /\ taskOut' = [taskOut EXCEPT ![i] = out]
    /\ taskNote' = [taskNote EXCEPT ![i] = note]

\* Variant: the error leaves the task unhandled and rejects Promise.all.
ListingErrorEscapes(i) == TaskEnds(i, <<>>, "failed") /\ Throw

\* catch (error) { ...; return []; } of processBusinessListing (and the
\* .catch(() => []) scrapePage chains to the call).
ListingError(i) == TaskEnds(i, <<>>, "failed") /\ UNCHANGED <<pc, result>>

\* this.processedBusinesses.has(businessId)
AlreadyProcessed(id, set) == id \in set

\* processBusinessListing from its start to the await of extractHiddenEmail:
\* the validity evaluate and extractBusinessInfo resolve, then the identity
\* check and add run in one turn.  A rejected evaluate is caught (return []),
\* a detached element is skipped (return []): both end the task "failed".
TaskInfo(i) ==
    /\ pc = "await"
    /\ taskPc[i] = "info"
    /\ \E o \in {"rejects", "detached", "ok"} :
         LET info == taskElem[i]
         IN  IF o = "rejects" THEN
                ListingError(i) /\ UNCHANGED processedBusinesses
             ELSE IF o = "detached" THEN
                TaskEnds(i, <<>>, "failed") /\ UNCHANGED <<pc, result, processedBusinesses>>
             ELSE IF ~HasIdentity(info) THEN
                TaskEnds(i, <<>>, "noid") /\ UNCHANGED <<pc, result, processedBusinesses>>
             ELSE IF AlreadyProcessed(BusinessId(info), processedBusinesses) THEN
                TaskEnds(i, <<>>, "dup") /\ UNCHANGED <<pc, result, processedBusinesses>>
             ELSE /\ processedBusinesses' = processedBusinesses \cup {BusinessId(info)}
                  /\ taskPc' = [taskPc EXCEPT ![i] = "email"]
                  /\ UNCHANGED <<pc, result, taskOut, taskNote>>
    /\ UNCHANGED <<callVars, fileVars, navigations, source, maxPages, browser, dom, csvFiles, secondary,
                   bypassVars, taskElem, pageVars, scrapedContacts, handled, mantaVars>>

\* extractHiddenEmail resolves (to '' when it caught an error), and the task
\* runs to its return.
TaskEmail(i) ==
    /\ pc = "await"
    /\ taskPc[i] = "email"
    /\ \E h \in {taskElem[i].hiddenEmail, ""} :
         \E extracted \in {extractAllContacts(taskElem[i].fullText, source)} :
           \E contacts \in {WithFallback(extracted, taskElem[i], h, source)} :
             \E enhanced \in {EnhanceAll(contacts, taskElem[i], h, source)} :
               TaskEnds(i, enhanced, "ok")
    /\ UNCHANGED <<callVars, fileVars, navigations, source, maxPages, pc, browser, result, dom, csvFiles, secondary,
                   bypassVars, taskElem, pageVars, sessionVars, mantaVars>>

\* Variant: assignment in place of push.
addContactsOverwrite(list, contacts) ==
    IF Len(contacts) > 0 THEN contacts ELSE list

\* BaseScraper.addContacts
addContacts(list, contacts) ==
    IF Len(contacts) > 0 THEN list \o contacts ELSE list

\* The identity a listing element carries on the page ("none": no name, no phone).
ElemId(e) == IF HasIdentity(e) THEN BusinessId(e) ELSE "none"

\* Variant: the batch resumes as soon as one task is settled.
BatchSettledAny(range) ==
    \/ \A i \in range : taskPc[i] \in {"done", "skipped"}
    \/ \E i \in range : taskPc[i] = "done"

\* Variant: Promise.all waits for a task of every index of the batch, also
\* of an index for which no task was started.
BatchSettledStarted(range) == \A i \in range : taskPc[i] = "done"

\* Promise.all(batch) has resolved: every task of the batch is settled.
BatchSettled(range) == \A i \in range : taskPc[i] \in {"done", "skipped"}

\* Variant: the results of a batch are added from the last task to the first.
RECURSIVE AddBatchReversed(_, _, _)
AddBatchReversed(list, lo, hi) ==
    IF lo > hi THEN list
    ELSE AddBatchReversed(IF taskPc[hi] = "done" /\ Len(taskOut[hi]) > 0
                          THEN addContacts(list, taskOut[hi]) ELSE list, lo, hi - 1)

\* for (const contacts of batchResults) this.addContacts(contacts): the
\* results in the order of the tasks in the batch.
RECURSIVE AddBatch(_, _, _)
AddBatch(list, lo, hi) ==
    IF lo > hi THEN list
    ELSE AddBatch(IF taskPc[lo] = "done" /\ Len(taskOut[lo]) > 0
                  THEN addContacts(list, taskOut[lo]) ELSE list, lo + 1, hi)

RECURSIVE SumLen(_, _)
SumLen(lo, hi) ==
    IF lo > hi THEN 0
    ELSE (IF taskPc[lo] = "done" THEN Len(taskOut[lo]) ELSE 0) + SumLen(lo + 1, hi)

RECURSIVE LogBatch(_, _, _)
LogBatch(log, lo, hi) ==
    IF lo > hi THEN log
    ELSE LogBatch(IF taskPc[lo] = "done"
                  THEN Append(log, [id |-> ElemId(taskElem[lo]), n |-> Len(taskOut[lo])])
                  ELSE log, lo + 1, hi)

\* After await Promise.all(batch): add the batch's contacts in task order,
\* count, and either loop (after the listing delay) or return the counters.
BatchEnd ==
    /\ pc = "await"
    /\ LET n     == Len(businessListings)
           range == BatchRange(batchStart, n)
           lo    == batchStart + 1
           hi    == Min(batchStart + BatchSize, n)
       IN  /\ BatchSettled(range)
           /\ scrapedContacts' = AddBatch(scrapedContacts, lo, hi)
           /\ newContactsCount' = newContactsCount + SumLen(lo, hi)
           /\ processedCount' = processedCount
                 + Cardinality({i \in range : taskPc[i] = "done" /\ Len(taskOut[i]) > 0})
           /\ handled' = LogBatch(handled, lo, hi)
           /\ batchStart' = batchStart + BatchSize
           /\ pc' = IF hi < n THEN "batch" ELSE "export"
    /\ UNCHANGED <<callVars, fileVars, navigations, source, maxPages, browser, result, dom, csvFiles, secondary,
                   bypassVars, taskVars, businessListings, processedBusinesses, mantaVars>>

\* scrape() after scrapePage: export when the page brought new contacts.
ExportPage ==
    /\ pc = "export"
    /\ IF newContactsCount > 0
       THEN \E ok \in BOOLEAN :
              IF ok THEN /\ csvFiles' = Append(csvFiles, ExportRows(scrapedContacts))
                         /\ Return("path")
              ELSE Throw /\ UNCHANGED csvFiles
       ELSE Return("null") /\ UNCHANGED csvFiles
    /\ UNCHANGED <<callVars, fileVars, navigations, source, maxPages, browser, dom, secondary, bypassVars,
                   taskVars, pageVars, sessionVars, mantaVars>>

\* finally { await this.close(); }: closing the browser closes its pages.
Close ==
    /\ pc = "finally"
    /\ browser' = CloseBrowser(browser)
    /\ secondary' = IF browser' = "closed" THEN 0 ELSE secondary
    /\ pc' = "done"
    /\ UNCHANGED <<callVars, fileVars, navigations, source, maxPages, result, dom, csvFiles, bypassVars,
                   taskVars, pageVars, sessionVars, mantaVars>>

\* ---------------------------------------------------- MantaScraper.scrape()

\* Top of the page loop: waitForElement (never throws), then page.$$.
MantaQuery ==
    /\ pc = "mantaPage"
    /\ \E ok \in BOOLEAN :
         IF ~ok THEN Throw /\ UNCHANGED <<businessListings, listingIdx>>
         ELSE /\ businessListings' = dom
              /\ result' = result
              /\ IF Len(dom) = 0 THEN pc' = "mantaExport" /\ listingIdx' = listingIdx
                 ELSE pc' = "mInfo" /\ listingIdx' = 1
    /\ UNCHANGED <<callVars, fileVars, navigations, source, maxPages, browser, dom, csvFiles, secondary, bypassVars,
                   taskVars, batchStart, processedCount, newContactsCount, sessionVars,
                   currentPage, allContacts, hiddenEmail>>

\* processBusinessListing returned `contacts`: addContacts, the 1 s wait, and
\* the next listing or the end of the listing loop.
MantaListingDone(contacts) ==
    /\ scrapedContacts' = addContacts(scrapedContacts, contacts)
    /\ handled' = Append(handled,
                    [id |-> ElemId(businessListings[listingIdx]), n |-> Len(contacts)])
    /\ allContacts' = <<>>
    /\ hiddenEmail' = ""
    /\ IF listingIdx < Len(businessListings)
       THEN listingIdx' = listingIdx + 1 /\ pc' = "mInfo"
       ELSE listingIdx' = listingIdx /\ pc' = "mNext"

\* The tail of processBusinessListing: fallback record, enhancement, return.
MantaFinish(contacts, h) ==
    LET info == businessListings[listingIdx]
    IN  \E kept \in {WithFallback(contacts, info, h, source)} :
          \E enhanced \in {EnhanceAll(kept, info, h, source)} :
            MantaListingDone(enhanced)

\* extractBusinessInfo ({} when its evaluate rejects) and the identity guard.
MantaInfo ==
    /\ pc = "mInfo"
    /\ \E ok \in BOOLEAN :
         IF ~ok THEN MantaListingDone(<<>>)
         ELSE IF ~HasIdentity(businessListings[listingIdx])
         THEN MantaListingDone(<<>>)
         ELSE pc' = "mEmail"
                /\ UNCHANGED <<scrapedContacts, handled, allContacts, hiddenEmail, listingIdx>>
    /\ UNCHANGED <<callVars, fileVars, navigations, source, maxPages, browser, result, dom, csvFiles, secondary,
                   bypassVars, taskVars, pageVars, processedBusinesses, currentPage>>

\* extractHiddenEmail, extractAllContacts over the listing text, and the
\* decision to visit the profile page.
MantaEmail ==
    /\ pc = "mEmail"
    /\ \E h \in {businessListings[listingIdx].hiddenEmail, ""} :
         LET info == businessListings[listingIdx]
             listingContacts == extractAllContacts(info.fullText, source)
         IN  IF info.businessUrl # "" /\ IsMantaUrl(info.businessUrl)
             THEN /\ hiddenEmail' = h
                  /\ allContacts' = listingContacts
                  /\ pc' = "mOpen"
                  /\ UNCHANGED <<scrapedContacts, handled, listingIdx>>
             ELSE MantaFinish(listingContacts, h)
    /\ UNCHANGED <<callVars, fileVars, navigations, source, maxPages, browser, result, dom, csvFiles, secondary,
                   bypassVars, taskVars, pageVars, processedBusinesses, currentPage>>

\* scrapeBusinessProfile: const profilePage = await this.browser.newPage();
\* a rejection is caught and {} returned.
ProfileOpen ==
    /\ pc = "mOpen"
    /\ \E ok \in BOOLEAN :
         IF ok THEN /\ secondary' = secondary + 1
                    /\ pc' = "mGoto"
                    /\ UNCHANGED <<scrapedContacts, handled, allContacts, hiddenEmail, listingIdx>>
         ELSE MantaFinish(allContacts, hiddenEmail) /\ secondary' = secondary
    /\ UNCHANGED <<callVars, fileVars, navigations, source, maxPages, browser, result, dom, csvFiles,
                   bypassVars, taskVars, pageVars, processedBusinesses, currentPage>>

\* await profilePage.goto(...): a rejection goes to the catch, which returns
\* {} (the statement profilePage.close() is not reached).
ProfileGoto ==
    /\ pc = "mGoto"
    /\ \E ok \in BOOLEAN :
         IF ok THEN pc' = "mEval"
                    /\ UNCHANGED <<scrapedContacts, handled, allContacts, hiddenEmail, listingIdx>>
         ELSE MantaFinish(allContacts, hiddenEmail)
    /\ UNCHANGED <<callVars, fileVars, navigations, source, maxPages, browser, result, dom, csvFiles, secondary,
                   bypassVars, taskVars, pageVars, processedBusinesses, currentPage>>

\* await profilePage.evaluate(...): likewise.
ProfileEvaluate ==
    /\ pc = "mEval"
    /\ \E ok \in BOOLEAN :
         IF ok THEN pc' = "mClose"
                    /\ UNCHANGED <<scrapedContacts, handled, allContacts, hiddenEmail, listingIdx>>
         ELSE MantaFinish(allContacts, hiddenEmail)
    /\ UNCHANGED <<callVars, fileVars, navigations, source, maxPages, browser, result, dom, csvFiles, secondary,
                   bypassVars, taskVars, pageVars, processedBusinesses, currentPage>>

\* await profilePage.close(); return profileDetails; then the merge of the
\* profile's contacts and e-mail into allContacts.  (The contact name only
\* sets firstName / lastName / fullName, which the returned records drop.)
ProfileClose ==
    /\ pc = "mClose"
    /\ secondary' = secondary - 1
    /\ \E info \in {businessListings[listingIdx]} :
         \E profileContacts \in {extractAllContacts(info.profileText, source)} :
           \E merged \in {MergeProfile(allContacts, profileContacts)} :
             \E filled \in {FillEmail(merged, info.profileEmail)} :
               MantaFinish(filled, hiddenEmail)
    /\ UNCHANGED <<callVars, fileVars, navigations, source, maxPages, browser, result, dom, csvFiles,
                   bypassVars, taskVars, pageVars, processedBusinesses, currentPage>>

\* if (currentPage < maxPages && await this.hasNextPage()) goToNextPage (the
\* next results page loads), else break.
MantaPaging ==
    /\ pc = "mNext"
    /\ \E o \in {"noNext", "navigated", "navFails"} :
         IF currentPage < maxPages /\ o = "navigated"
         THEN /\ currentPage' = currentPage + 1
              /\ dom' \in Pages(source)
              /\ pc' = "mantaPage"
         ELSE currentPage' = currentPage /\ dom' = dom /\ pc' = "mantaExport"
    /\ UNCHANGED <<callVars, fileVars, navigations, source, maxPages, browser, result, csvFiles, secondary,
                   bypassVars, taskVars, pageVars, sessionVars,
                   listingIdx, allContacts, hiddenEmail>>

\* BaseScraper.exportContacts: null for an empty list, else the exporter.
MantaExport ==
    /\ pc = "mantaExport"
    /\ IF scrapedContacts = <<>> THEN Return("null") /\ UNCHANGED csvFiles
       ELSE \E ok \in BOOLEAN :
              IF ok THEN /\ csvFiles' = Append(csvFiles, ExportRows(scrapedContacts))
                         /\ Return("path")
              ELSE Throw /\ UNCHANGED csvFiles
    /\ UNCHANGED <<callVars, fileVars, navigations, source, maxPages, browser, dom, secondary, bypassVars,
                   taskVars, pageVars, sessionVars, mantaVars>>

\* ------------------------------------------------------------ specification

Next ==
    \/ InitBrowser
    \/ NavigateToUrl
    \/ CheckTitle
    \/ BypassStrategy
    \/ BypassCheck
    \/ ScrapePageQuery
    \/ BatchBegin
    \/ \E i \in DOMAIN taskPc : TaskInfo(i)
    \/ \E i \in DOMAIN taskPc : TaskEmail(i)
    \/ BatchEnd
    \/ ExportPage
    \/ MantaQuery
    \/ MantaInfo
    \/ MantaEmail
    \/ ProfileOpen
    \/ ProfileGoto
    \/ ProfileEvaluate
    \/ ProfileClose
    \/ MantaPaging
    \/ MantaExport
    \/ Close

Spec == Init /\ [][Next]_vars

\* A second scrape() call on an object whose first call handled a page holding
\* the listing LAcme and returned: no statement of scrape() assigns
\* processedBusinesses or scrapedContacts, so the call finds them as the first
\* one left them (the Manta scraper keeps no identity set of its own).
InitAgain ==
    /\ ScrapeCall
    /\ processedBusinesses = IF source = "yellowpages" THEN {BusinessId(LAcme)} ELSE {}
    /\ scrapedContacts = ListingContacts(LAcme, LAcme.hiddenEmail, source)

SpecAgain == InitAgain /\ [][Next]_vars

\* YellowPages scrape() from the call of scrapePage on, on a loaded,
\* protection-free results page of more than one batch.
AtScrapePage ==
    /\ source = "yellowpages"
    /\ maxPages = 1
    /\ pc = "scrapePage"
    /\ browser = "open"
    /\ result = "pending"
    /\ title = "Restaurants in Anchorage"
    /\ strategy = 0
    /\ ladder = <<>>
    /\ checks = <<>>
    /\ ready = TRUE
    /\ businessListings = <<>>
    /\ batchStart = 0
    /\ taskPc = <<>>
    /\ taskElem = <<>>
    /\ taskOut = <<>>
    /\ taskNote = <<>>
    /\ processedCount = 0
    /\ newContactsCount = 0
    /\ processedBusinesses = {}
    /\ scrapedContacts = <<>>
    /\ handled = <<>>
    /\ csvFiles = <<>>
    /\ secondary = 0
    /\ currentPage = 1
    /\ listingIdx = 0
    /\ allContacts = <<>>
    /\ hiddenEmail = ""
    /\ navigations = <<>>
    /\ InitFiles
    /\ InitCalls

InitBatches == AtScrapePage /\ dom \in LongPages

NextBatches ==
    \/ ScrapePageQuery
    \/ BatchBegin
    \/ \E i \in DOMAIN taskPc : TaskInfo(i)
    \/ \E i \in DOMAIN taskPc : TaskEmail(i)
    \/ BatchEnd
    \/ ExportPage
    \/ Close

SpecBatches == InitBatches /\ [][NextBatches]_vars

\* A results page whose elements come and go while it is scraped: one more
\* listing than a batch holds, each of another business.
Business(k) == Listing(<<"Alder", "Birch", "Cedar", "Dogwood", "Elm", "Fir", "Ginkgo">>[k],
                       "", "", NoText, "", "", NoText)

LivePages == {[k \in 1..(BatchSize + 1) |-> Business(k)]}

\* An element the page shows that the first query did not find.
LNew == Listing("Hazel", "", "", NoText, "", "", NoText)

\* What page.$$(usedSelector) may find on a page that showed the elements d:
\* the same elements, all but the last, all but the first, or the same
\* elements after a new first one.
LiveRequery(d) ==
    Requery(d) \cup (IF d = <<>> THEN {} ELSE {Tail(d)})
               \cup (IF Len(d) > BatchSize + 1 THEN {} ELSE {<<LNew>> \o d})

BatchBeginLive == BatchBeginOn(LiveRequery(dom))

InitLive == AtScrapePage /\ dom \in LivePages

NextLive ==
    \/ ScrapePageQuery
    \/ BatchBeginLive
    \/ \E i \in DOMAIN taskPc : TaskInfo(i)
    \/ \E i \in DOMAIN taskPc : TaskEmail(i)
    \/ BatchEnd
    \/ ExportPage
    \/ Close

SpecLive == InitLive /\ [][NextLive]_vars

\* scrape() where every driver call that was awaited returns or times out (a
\* step that can be taken is taken), on the pages of Spec and, from scrapePage
\* on, on a page of two batches.
InitFair == Init \/ (AtScrapePage /\ dom \in LivePages)

SpecFair == InitFair /\ [][Next]_vars /\ WF_vars(Next)


\* ------------------------------------------------- CSVExporter on the disk

\* Contacts as the scrapers hand them to the exporter: one whose fields are
\* single lines, and one whose business name (textContent.trim() of the name
\* element) holds a line break.
CPlain(src) ==
    [businessName |-> "Acme", website |-> "", address |-> "",
     email |-> "info@acme.com", phone |-> "", source |-> src]

CMultiLine(src) == [CPlain(src) EXCEPT !.businessName = "Acme\nPlumbing"]

ContactLists(src) == SeqsOf({CPlain(src), CMultiLine(src)}, 0, MaxRows)

\* A CSV file of the disk.
CsvFile(dir, name, rows) ==
    [dir |-> dir, name |-> name, ext |-> "csv", header |-> HeaderLine,
     rows |-> rows, sheets |-> <<>>]

\* fs.pathExists / the position of a path in the listing (0: no such file).
Locate(d, dir, name, ext) ==
    LET hits == {k \in 1..Len(d) :
                    d[k].dir = dir /\ d[k].name = name /\ d[k].ext = ext}
    IN  IF hits = {} THEN 0 ELSE CHOOSE k \in hits : TRUE

\* A file written at its path: replaced where it is, else a new entry.
PutFile(d, file) ==
    LET k == Locate(d, file.dir, file.name, file.ext)
    IN  IF k = 0 THEN Append(d, file) ELSE [d EXCEPT ![k] = file]

\* exportContacts(contacts, source, pageNumber, location): the directory is
\* ensured first (a rejected fs.ensureDir leaves the call); no contacts =>
\* null; else the file is written with the records numbered from 1 (a
\* rejected write is rethrown).  failed: an I/O call of the run rejected.
ExportContacts(contacts, src, pageNumber, location) ==
    LET targetDir == ensureOutputDir(src, location)
        filename  == generateFilename(src, pageNumber, location)
        file      == CsvFile(targetDir, filename, WriteRecords(ExportRows(contacts)))
    IN  /\ prior' = NoCall
        /\ \E dirOk \in BOOLEAN :
             IF ~dirOk
             THEN /\ dirs' = dirs
                  /\ disk' = disk
                  /\ ret' = [op |-> "export", kind |-> "error", failed |-> TRUE]
             ELSE /\ dirs' = dirs \cup {OutputDir, targetDir}
                  /\ IF Len(contacts) = 0
                     THEN /\ ret' = [op |-> "export", kind |-> "null", failed |-> FALSE]
                          /\ disk' = disk
                     ELSE \E ok \in BOOLEAN :
                            IF ok
                            THEN /\ disk' = PutFile(disk, file)
                                 /\ ret' = [op |-> "export", kind |-> "path",
                                            failed |-> FALSE, count |-> Len(contacts),
                                            dir |-> targetDir, name |-> filename]
                            ELSE /\ disk' = disk
                                 /\ ret' = [op |-> "export", kind |-> "error",
                                            failed |-> TRUE]
        /\ UNCHANGED <<scraperVars, callVars>>

\* appendContacts(contacts, filepath): nothing to append => return; no such
\* file => throw; else the records are numbered from readContacts(filepath)
\* .length + 1 and written after the file's records.  readContacts returns
\* [] when reading the file rejects (readOk = FALSE); a rejected write is
\* rethrown.
AppendContacts(contacts, dir, name) ==
    LET k == Locate(disk, dir, name, "csv")
    IN  /\ prior' = NoCall
        /\ dirs' = dirs
        /\ IF Len(contacts) = 0
           THEN /\ disk' = disk
                /\ ret' = [op |-> "append", kind |-> "returned", existed |-> k # 0,
                           unchanged |-> TRUE, failed |-> FALSE]
           ELSE IF k = 0
           THEN /\ disk' = disk
                /\ ret' = [op |-> "append", kind |-> "error", existed |-> FALSE,
                           unchanged |-> TRUE, failed |-> FALSE]
           ELSE /\ Len(disk[k].rows) + Len(contacts) <= MaxRows
                /\ \E readOk \in BOOLEAN, ok \in BOOLEAN :
                     LET existingContactsLength ==
                             IF readOk THEN readContactsLength(disk[k].rows) ELSE 0
                         startingSerialNumber == existingContactsLength + 1
                         added == WriteRecords(AppendRows(contacts, startingSerialNumber))
                     IN  IF ok
                         THEN /\ disk' = [disk EXCEPT ![k].rows = @ \o added]
                              /\ ret' = [op |-> "append", kind |-> "returned",
                                         existed |-> TRUE, unchanged |-> FALSE,
                                         failed |-> ~readOk, at |-> k,
                                         before |-> Len(disk[k].rows),
                                         count |-> Len(contacts)]
                         ELSE /\ disk' = disk
                              /\ ret' = [op |-> "append", kind |-> "error",
                                         existed |-> TRUE, unchanged |-> TRUE,
                                         failed |-> TRUE]
        /\ UNCHANGED <<scraperVars, callVars>>

\* No scrape is running: the scrapers as constructed.
IdleScraper ==
    /\ source = "yellowpages"
    /\ maxPages = 1
    /\ pc = "idle"
    /\ browser = "none"
    /\ result = "pending"
    /\ title = ""
    /\ dom = <<>>
    /\ strategy = 0
    /\ ladder = <<>>
    /\ checks = <<>>
    /\ ready = FALSE
    /\ businessListings = <<>>
    /\ batchStart = 0
    /\ taskPc = <<>>
    /\ taskElem = <<>>
    /\ taskOut = <<>>
    /\ taskNote = <<>>
    /\ processedCount = 0
    /\ newContactsCount = 0
    /\ processedBusinesses = {}
    /\ scrapedContacts = <<>>
    /\ handled = <<>>
    /\ csvFiles = <<>>
    /\ secondary = 0
    /\ currentPage = 1
    /\ listingIdx = 0
    /\ allContacts = <<>>
    /\ hiddenEmail = ""
    /\ navigations = <<>>

\* The exporter and the merger called on their own.
InitExport == IdleScraper /\ InitFiles /\ InitCalls

\* options.pageNumber of the exports.
PageNumbers == {1, 2}

\* The exporter's calls on the pages of one search.
NextExport ==
    \/ \E contacts \in ContactLists("yellowpages"), page \in PageNumbers :
          ExportContacts(contacts, "yellowpages", page, LocAustin)
    \/ \E contacts \in ContactLists("yellowpages"), page \in PageNumbers :
          AppendContacts(contacts, ensureOutputDir("yellowpages", LocAustin),
                         generateFilename("yellowpages", page, LocAustin))

SpecExport == InitExport /\ [][NextExport]_vars

\* ------------------------------------------------------------- XLSXMerger

\* Variant: every file under the output root is taken for a CSV file.
IsAnyItem(item) == TRUE

\* item.isFile() && item.name.endsWith('.csv')
IsCsvItem(item) == item.ext = "csv"

\* fileName.includes(s), for s one of 'yellowpages', 'manta', 'test': of the
\* names written here only the piece that is s itself contains s.
Includes(name, s) == \E k \in DOMAIN name : name[k] = s

\* getCSVFiles(pattern): the CSV files under the output root in listing
\* order, filtered by the pattern; [] when reading the directory fails.
getCSVFiles(d, pattern, dirOk) ==
    IF ~dirOk THEN <<>>
    ELSE SelectSeq(d, LAMBDA item :
            IsCsvItem(item) /\ (pattern = "" \/ Includes(item.name, pattern)))

\* readCSVFile of a file that can be read: its records, each keyed by the
\* titles of the header line, the values as text.
readCSVFile(file) == file.rows

\* path.basename(csvFile, '.csv')
BaseName(name) == JoinWords(name, "_")

\* extractSourceFromFileName
extractSourceFromFileName(name) ==
    IF Includes(name, "yellowpages") THEN "YellowPages"
    ELSE IF Includes(name, "manta") THEN "Manta"
    ELSE IF Includes(name, "test") THEN "Test"
    ELSE name[1]

\* extractLocationFromFilePath: the first match of
\* /(?:yellowpages|manta)_([^_]+)_([^_]+)_contacts/ in the file name.
extractLocationFromFilePath(name) ==
    LET hits == {k \in 1..(Len(name) - 3) :
                    /\ name[k] \in {"yellowpages", "manta"}
                    /\ name[k + 3] = "contacts"}
    IN  IF hits = {} THEN [city |-> "Unknown", state |-> "XX"]
        ELSE LET k == CHOOSE m \in hits : \A n \in hits : m <= n
             IN  [city |-> name[k + 1], state |-> name[k + 2]]

\* determinePrimarySource
determinePrimarySource(files) ==
    IF \E k \in DOMAIN files : Includes(files[k].name, "yellowpages") THEN "yellowpages"
    ELSE IF \E k \in DOMAIN files : Includes(files[k].name, "manta") THEN "manta"
    ELSE "yellowpages"

\* The columns renumberRecords rewrites.
NumberKeys == {"No.", "no", "number", "Number", "S.No", "Sr.No", "ID", "id"}

\* renumberRecords(records, startNumber)
renumberRecords(records, startNumber) ==
    [k \in 1..Len(records) |->
        [c \in DOMAIN records[k] |->
            IF c \in NumberKeys THEN startNumber + k - 1 ELSE records[k][c]]]

\* data.map(record => ({...record, sourceFile: fileName}))
EnhanceData(file) ==
    [k \in 1..Len(readCSVFile(file)) |-> readCSVFile(file)[k] @@ [sourceFile |-> BaseName(file.name)]]

\* allData: the records of the files in reading order (a file without
\* records adds nothing).
RECURSIVE AllData(_)
AllData(files) ==
    IF files = <<>> THEN <<>> ELSE EnhanceData(Head(files)) \o AllData(Tail(files))

\* Object.keys(sheetData): the sources in the order of their first file with
\* records.
SheetSources(files) ==
    Dedup([k \in 1..Len(SelectSeq(files, LAMBDA f : Len(readCSVFile(f)) > 0)) |->
             extractSourceFromFileName(
                 SelectSeq(files, LAMBDA f : Len(readCSVFile(f)) > 0)[k].name)])

\* sheetData[source]
SheetData(files, src) ==
    AllData(SelectSeq(files, LAMBDA f : extractSourceFromFileName(f.name) = src))

\* The per-source sheets, numbered with a running offset.
RECURSIVE SourceSheets(_, _, _)
SourceSheets(files, sources, currentNumber) ==
    IF sources = <<>> THEN <<>>
    ELSE LET sourceData == renumberRecords(SheetData(files, Head(sources)), currentNumber)
         IN  <<[name |-> Head(sources), rows |-> sourceData]>>
               \o SourceSheets(files, Tail(sources), currentNumber + Len(sourceData))

\* The sheets of the workbook mergeToXLSX builds.
Workbook(files, separateSheets) ==
    LET renumberedData == renumberRecords(AllData(files), 1)
    IN  IF separateSheets /\ Len(SheetSources(files)) > 1
        THEN SourceSheets(files, SheetSources(files), 1)
               \o <<[name |-> "All_Combined", rows |-> renumberedData]>>
        ELSE <<[name |-> "Contacts", rows |-> renumberedData]>>

\* The directory the workbook is saved in.
OutputPathDir(files, pattern) ==
    LET location == extractLocationFromFilePath(files[1].name)
        src == IF pattern # "" /\ pattern # "all" THEN pattern
               ELSE determinePrimarySource(files)
    IN  IF location.city # "Unknown"
        THEN PathJoin(PathJoin(OutputDir, getSourceFolderName(src)),
                      location.city \o " " \o location.state)
        ELSE OutputDir

\* options of mergeToXLSX: pattern "" is the default null.
MergeOptions == [pattern : {"", "yellowpages", "manta"}, separateSheets : BOOLEAN]

\* options.outputFileName, at its default.
OutputFileName == <<"merged", "contacts">>

\* The sum of the record counts of the files.
RECURSIVE TotalRecords(_)
TotalRecords(files) ==
    IF files = <<>> THEN 0 ELSE Len(readCSVFile(Head(files))) + TotalRecords(Tail(files))

\* What a call of the merger left behind.
MergeRet(kind, opts, dirOk, bad, files, dir, sheets) ==
    [op |-> "merge", kind |-> kind, opts |-> opts, dirOk |-> dirOk,
     unreadable |-> bad, files |-> [k \in 1..Len(files) |-> BaseName(files[k].name)],
     dir |-> dir, sheets |-> sheets]

\* mergeToXLSX(options): the files are listed (dirOk: the directory can be
\* read) and read in turn (bad: the file whose read stream fails, 0 for
\* none); no file or no record => null; a failed read leaves the loop and is
\* rethrown; else the workbook is written.  prior keeps the result of the
\* call before when that call wrote a workbook under the same options.
MergeFiles(opts, outputFileName) ==
    \E dirOk \in BOOLEAN :
        LET found == getCSVFiles(disk, opts.pattern, dirOk)
        IN  \E bad \in 0..Len(found) :
              /\ prior' = IF ret.op = "merge" /\ ret.kind = "path" /\ ret.opts = opts
                          THEN ret ELSE NoCall
              /\ IF Len(found) = 0
                 THEN /\ ret' = MergeRet("null", opts, dirOk, bad, found, "", <<>>)
                      /\ dirs' = dirs \cup {OutputDir}
                      /\ disk' = disk
                 ELSE IF bad # 0
                 THEN /\ ret' = MergeRet("error", opts, dirOk, bad, found, "", <<>>)
                      /\ dirs' = dirs \cup {OutputDir}
                      /\ disk' = disk
                 ELSE IF Len(AllData(found)) = 0
                 THEN /\ ret' = MergeRet("null", opts, dirOk, bad, found, "", <<>>)
                      /\ dirs' = dirs \cup {OutputDir}
                      /\ disk' = disk
                 ELSE LET sheets == Workbook(found, opts.separateSheets)
                          outputDir == OutputPathDir(found, opts.pattern)
                      IN  /\ dirs' = dirs \cup {OutputDir, outputDir}
                          /\ disk' = PutFile(disk, [dir |-> outputDir,
                                                    name |-> outputFileName,
                                                    ext |-> "xlsx", rows |-> <<>>,
                                                    sheets |-> sheets])
                          /\ ret' = MergeRet("path", opts, dirOk, bad, found,
                                             outputDir, sheets)

MergeToXLSX(opts) == MergeFiles(opts, OutputFileName) /\ UNCHANGED <<scraperVars, callVars>>

\* stats.sources
SourceStats(files) ==
    [src \in {extractSourceFromFileName(files[k].name) : k \in DOMAIN files} |->
        LET mine == SelectSeq(files, LAMBDA f : extractSourceFromFileName(f.name) = src)
        IN  [files |-> Len(mine), records |-> TotalRecords(mine)]]

\* getStatistics(): the files are listed and read in turn; any failure is
\* caught and null returned.
GetStatistics ==
    \E dirOk \in BOOLEAN :
        LET found == getCSVFiles(disk, "", dirOk)
        IN  \E bad \in 0..Len(found) :
              /\ prior' = NoCall
              /\ dirs' = dirs \cup {OutputDir}
              /\ disk' = disk
              /\ ret' = IF bad # 0
                        THEN [op |-> "stats", kind |-> "null", dirOk |-> dirOk,
                              unreadable |-> bad, totalFiles |-> 0,
                              totalRecords |-> 0, sources |-> <<>>]
                        ELSE [op |-> "stats", kind |-> "stats", dirOk |-> dirOk,
                              unreadable |-> bad, totalFiles |-> Len(found),
                              totalRecords |-> TotalRecords(found),
                              sources |-> SourceStats(found)]
              /\ UNCHANGED <<scraperVars, callVars>>

\* The exports the merger's runs are preceded by, in the order of the runs:
\* two result pages of one Yellow Pages search, then one Manta page of the
\* default location.
ExportTargets ==
    <<[src |-> "yellowpages", page |-> 1, location |-> LocAustin],
      [src |-> "yellowpages", page |-> 2, location |-> LocAustin],
      [src |-> "manta", page |-> 1, location |-> LocNewYork]>>

\* The file of a later export is on the disk.
LaterExported(k) ==
    \E j \in (k + 1)..Len(ExportTargets) :
        LET t == ExportTargets[j]
        IN  Locate(disk, ensureOutputDir(t.src, t.location),
                   generateFilename(t.src, t.page, t.location), "csv") # 0

\* The scrapes have ended when the merger is run: the exports come first.
NextMerge ==
    \/ \E k \in DOMAIN ExportTargets :
          \E contacts \in SeqsOf({CPlain(ExportTargets[k].src)}, 0, MaxRows) :
             /\ ret.op \in {"none", "export"}
             /\ ~LaterExported(k)
             /\ ExportContacts(contacts, ExportTargets[k].src, ExportTargets[k].page,
                               ExportTargets[k].location)
    \/ \E opts \in MergeOptions : MergeToXLSX(opts)
    \/ GetStatistics

SpecMerge == InitExport /\ [][NextMerge]_vars

\* extractLocationFromFiles: the location in the name of the first file
\* whose name matches.
RECURSIVE extractLocationFromFiles(_)
extractLocationFromFiles(files) ==
    IF files = <<>> THEN [city |-> "Unknown", state |-> "XX"]
    ELSE IF extractLocationFromFilePath(Head(files).name).city # "Unknown"
    THEN extractLocationFromFilePath(Head(files).name)
    ELSE extractLocationFromFiles(Tail(files))

\* `Final_${city}_${state}_..._Data.xlsx`, as its "_"-separated pieces.
FinalFileName(location, src) ==
    <<"Final", location.city, location.state>>
        \o (CASE src = "yellowpages" -> <<"YellowPages">>
               [] src = "manta"       -> <<"Manta">>
               [] OTHER               -> <<>>)
        \o <<"Data">>

\* mergeBySource(source, separateSheets): the name is made from the location
\* of all CSV files under the output root, then mergeToXLSX runs with the
\* pattern of the source (none for 'all').
MergeBySource(src, separateSheets) ==
    \E listOk \in BOOLEAN :
        LET listed   == getCSVFiles(disk, "", listOk)
            location == extractLocationFromFiles(listed)
            pattern  == IF src \in {"yellowpages", "manta"} THEN src ELSE ""
        IN  /\ MergeFiles([pattern |-> pattern, separateSheets |-> separateSheets],
                          FinalFileName(location, src))
            /\ arg' = [op |-> "mergeBySource", source |-> src, location |-> location,
                       outputFileName |-> FinalFileName(location, src)]
            /\ UNCHANGED <<scraperVars, returned>>

\* The scrapes, then one run of the merger.
NextBySource ==
    \/ \E k \in DOMAIN ExportTargets :
          \E contacts \in SeqsOf({CPlain(ExportTargets[k].src)}, 0, MaxRows) :
             /\ ret.op \in {"none", "export"}
             /\ ~LaterExported(k)
             /\ ExportContacts(contacts, ExportTargets[k].src, ExportTargets[k].page,
                               ExportTargets[k].location)
    \/ \E src \in {"all", "yellowpages", "manta"}, separateSheets \in BOOLEAN :
          ret.op # "merge" /\ MergeBySource(src, separateSheets)

SpecBySource == InitExport /\ [][NextBySource]_vars

\* -------------------------------------- utility functions called on their own

\* The texts handed to the extractor: up to MaxMatches matches of the e-mail
\* pattern and of each of the two phone patterns.
Texts ==
    [emails : SeqsOf({"info@acme.com", "sales@acme.com"}, 0, MaxMatches),
     phones : SeqsOf({"(907) 555-1234", "1-907-555-1234", "155-555-1234"}, 0, MaxMatches),
     altPhones : SeqsOf({"907-555-1234", "907.555.1234"}, 0, MaxMatches),
     names : {<<>>}]

\* The addresses formatAddress is handed: a street, an optional suite, a
\* city, a state and a ZIP code, with nothing, a blank, or a comma and a
\* blank between them.  wellFormed: all the separators are commas.
Addresses ==
    LET glued     == <<>>
        blank     == <<" ">>
        commaThen == <<",", " ">>
        streets == {<<"3", "3", "0", "0", " ", "A", "r", "c", "t", "i", "c", " ", "B", "l", "v", "d">>}
        suites  == {<<>>, <<"S", "t", "e", " ", "1", "0", "2">>}
        places  ==
            {[city |-> <<"A", "n", "c", "h", "o", "r", "a", "g", "e">>, state |-> <<"A", "K">>,
              zip |-> <<"9", "9", "5", "0", "3">>],
             [city |-> <<"E", "a", "g", "l", "e", " ", "R", "i", "v", "e", "r">>,
              state |-> <<"A", "K">>, zip |-> <<"9", "9", "5", "7", "7">>],
             [city |-> <<"S", "t", ".", " ", "L", "o", "u", "i", "s">>, state |-> <<"M", "O">>,
              zip |-> <<"6", "3", "1", "0", "1">>]}
    IN  {[kind |-> "address",
          chars |-> x.street \o x.sep1
                      \o (IF x.suite = <<>> THEN <<>> ELSE x.suite \o x.sep2)
                      \o x.place.city \o x.sep3 \o x.place.state \o <<" ">>
                      \o x.place.zip,
          wellFormed |-> /\ x.sep1 = commaThen /\ x.sep3 = commaThen
                         /\ (x.suite # <<>> => x.sep2 = commaThen)] :
            x \in {y \in [street : streets, suite : suites, place : places,
                          sep1 : {glued, blank, commaThen},
                          sep2 : {glued, blank, commaThen},
                          sep3 : {blank, commaThen}] :
                     y.suite = <<>> => y.sep2 = glued}}

\* The descendants of a listing element that bear on the hidden email, in
\* document order: an anchor <a href="mailto:e">, an element that carries
\* mailto:e in its onclick or in a data attribute, or a collapsed section
\* (class "show-more") whose click inserts an anchor <a href="mailto:e">.
Nodes == [kind : {"link", "onclick", "toggle"},
          email : {"info@acme.com", "sales@acme.com"}]

Elements ==
    {[kind |-> "element", source |-> src, nodes |-> ns] :
        src \in {"yellowpages", "manta"},
        ns \in UNION {[1..n -> Nodes] : n \in 0..MaxNodes}}

\* The address of the first node in document order that is of one of the
\* kinds, '' when there is none.
FirstOf(nodes, kinds) ==
    LET at == {i \in DOMAIN nodes : nodes[i].kind \in kinds}
    IN  IF at = {} THEN ""
        ELSE nodes[CHOOSE i \in at : \A j \in at : i <= j].email

\* The selector loop over moreInfoSelectors: the first anchor whose href
\* starts with mailto:.
DirectMailto(nodes) == FirstOf(nodes, {"link"})

\* The scan of every attribute of every descendant for mailto:; the href of
\* an anchor is an attribute as well.
AttributeMailto(nodes) == FirstOf(nodes, {"link", "onclick"})

\* expandableSection.click(): the first collapsed section shows its anchor.
Expand(nodes) ==
    LET at == {i \in DOMAIN nodes : nodes[i].kind = "toggle"}
    IN  IF at = {} THEN nodes
        ELSE [nodes EXCEPT ![CHOOSE i \in at : \A j \in at : i <= j].kind = "link"]

\* The loop over expandableSelectors: a section is clicked and the element is
\* queried again for a[href*="mailto:"]; a click that throws is skipped.
ExpandedMailto(nodes, clicked) ==
    IF clicked THEN DirectMailto(Expand(nodes)) ELSE ""

\* MantaScraper.extractHiddenEmail: the value returned and the strategies run.
MantaHiddenEmail(nodes, clicked) ==
    IF DirectMailto(nodes) # "" THEN
        [value |-> DirectMailto(nodes), tried |-> <<"mailto">>]
    ELSE IF ExpandedMailto(nodes, clicked) # "" THEN
        [value |-> ExpandedMailto(nodes, clicked), tried |-> <<"mailto", "expand">>]
    ELSE [value |-> AttributeMailto(nodes),
          tried |-> <<"mailto", "expand", "attributes">>]

\* YellowPagesScraper.extractHiddenEmail: the attribute scan, then the
\* selector loop; no section is clicked.
YellowPagesHiddenEmail(nodes, clicked) ==
    IF AttributeMailto(nodes) # "" THEN
        [value |-> AttributeMailto(nodes), tried |-> <<"attributes">>]
    ELSE [value |-> DirectMailto(nodes), tried |-> <<"attributes", "mailto">>]

\* extractHiddenEmail(businessElement): an evaluate that rejects, or an
\* element no longer connected, gives ''.
ExtractHiddenEmailCall ==
    /\ arg.kind = "element"
    /\ \E lost \in BOOLEAN, clicked \in BOOLEAN :
          LET r == IF arg.source = "manta" THEN MantaHiddenEmail(arg.nodes, clicked)
                   ELSE YellowPagesHiddenEmail(arg.nodes, clicked)
          IN  returned' = [op |-> "extractHiddenEmail", lost |-> lost, clicked |-> clicked,
                           value |-> IF lost THEN "" ELSE r.value,
                           tried |-> r.tried]
    /\ UNCHANGED <<arg, scraperVars, fileVars>>

\* The listings processBusinessListing is called on: with and without name,
\* phone, address and website, a text that matches an e-mail, a phone, both or
\* nothing, with and without a hidden e-mail; for Manta, with and without a
\* profile page, whose text matches the listing's e-mail, another e-mail, two
\* e-mails, a phone or nothing, and which shows an e-mail link or none.
ListingTexts ==
    {NoText,
     [NoText EXCEPT !.emails = <<"sales@acme.com">>],
     [NoText EXCEPT !.phones = <<"1-907-555-1234">>],
     [NoText EXCEPT !.emails = <<"sales@acme.com">>, !.phones = <<"1-907-555-1234">>],
     [NoText EXCEPT !.emails = <<"sales@acme.com", "info@acme.com">>]}

ProfileTexts ==
    {NoText,
     [NoText EXCEPT !.emails = <<"sales@acme.com">>, !.altPhones = <<"907.555.1234">>],
     [NoText EXCEPT !.emails = <<"owner@acme.com">>, !.phones = <<"1-907-555-1234">>],
     [NoText EXCEPT !.phones = <<"(907) 555-9876">>],
     [NoText EXCEPT !.emails = <<"owner@acme.com", "sales@acme.com">>,
                    !.phones = <<"(907) 555-9876">>]}

Listings ==
    LET structured == {[name |-> n, phone |-> p, address |-> a.address, website |-> a.website] :
                          n \in {"", "Acme"}, p \in {"", "907-555-1234"},
                          a \in {[address |-> "", website |-> ""],
                                 [address |-> "3300 Arctic Blvd Ste 102Anchorage, AK 99503",
                                  website |-> "https://acme.com"]}}
        onPage == {[Listing(x.name, x.phone, x.address, t, h, "", NoText)
                       EXCEPT !.website = x.website] :
                      x \in structured, t \in ListingTexts, h \in {"", "info@acme.com"}}
        linked == {[y EXCEPT !.businessUrl = "https://www.manta.com/c/acme",
                             !.profileText = t, !.profileEmail = e] :
                      y \in onPage, t \in ProfileTexts, e \in {"", "owner@acme.com"}}
    IN  {[kind |-> "listing", source |-> "yellowpages", info |-> y] : y \in onPage}
          \cup {[kind |-> "listing", source |-> "manta", info |-> y] :
                   y \in onPage \cup linked}

\* The contacts of the listing text with those of the profile text merged in.
ProfileMerged(listingContacts, info, src) ==
    MergeProfile(listingContacts, extractAllContacts(info.profileText, src))

\* What the Contact Extractor has yielded for the listing when the records
\* are enhanced (visited: the profile page was read).
ExtractedFor(info, src, visited) ==
    IF src = "manta" /\ visited
    THEN ProfileMerged(extractAllContacts(info.fullText, src), info, src)
    ELSE extractAllContacts(info.fullText, src)

\* processBusinessListing from the extractor call to its return value.
processBusinessListing(info, h, src, visited) ==
    IF src = "manta" /\ visited
    THEN LET filled == FillEmail(ExtractedFor(info, src, visited),
                                      info.profileEmail)
         IN  EnhanceAll(WithFallback(filled, info, h, src), info, h, src)
    ELSE ListingContacts(info, h, src)

\* processBusinessListing(businessElement) for a listing with a name or a
\* phone whose identity was not seen before: extractHiddenEmail finds the
\* hidden e-mail or not, and scrapeBusinessProfile reads the profile page or
\* returns {}.
ProcessListingCall ==
    /\ arg.kind = "listing"
    /\ HasIdentity(arg.info)
    /\ \E h \in {arg.info.hiddenEmail, ""}, read \in BOOLEAN :
          LET visited == read /\ arg.info.businessUrl # "" /\ IsMantaUrl(arg.info.businessUrl)
          IN  returned' = [op |-> "processBusinessListing", hiddenEmail |-> h,
                           visited |-> visited,
                           extracted |-> ExtractedFor(arg.info, arg.source, visited),
                           value |-> processBusinessListing(arg.info, h, arg.source, visited)]
    /\ UNCHANGED <<arg, scraperVars, fileVars>>

\* businessSelectors of scrapePage, in the order of the array.
businessSelectors ==
    <<".search-results .result", ".organic .result", ".listing", ".result",
      ".business-listing", ".srp-listing", "[data-listing]", "[class*=\"result\"]",
      "[class*=\"listing\"]", "[class*=\"business\"]", ".info", ".info-section",
      ".business-card">>

\* A results page as the selector loop sees it: the selectors that match at
\* least one element, and how many elements the first of them matches (one
\* batch, or one more than a batch).
ResultPages ==
    {[kind |-> "page", matching |-> m, count |-> n] :
        m \in {x \in SUBSET DOMAIN businessSelectors : Cardinality(x) <= MaxMatching},
        n \in {1, BatchSize + 1}}

\* The selectors the loop `for (const selector of businessSelectors)` passes
\* to page.$$: all up to the first that matches an element.
SelectorsTried(matching) ==
    IF matching = {} THEN [k \in DOMAIN businessSelectors |-> businessSelectors[k]]
    ELSE [k \in 1..(CHOOSE i \in matching : \A j \in matching : i <= j) |->
             businessSelectors[k]]

\* usedSelector after the loop ('' when no selector matched).
UsedSelector(matching) ==
    IF matching = {} THEN ""
    ELSE businessSelectors[CHOOSE i \in matching : \A j \in matching : i <= j]

\* Variant: every batch queries the page with the first selector of the list.
RequerySelectorFirst(usedSelector) == businessSelectors[1]

\* const currentBusinessListings = await this.page.$$(usedSelector)
RequerySelector(usedSelector) == usedSelector

\* The batch loop: one re-query per batch of the listings found.
Requeried(usedSelector, n) ==
    [b \in 1..((n + BatchSize - 1) \div BatchSize) |-> RequerySelector(usedSelector)]

\* scrapePage from the selector loop to the end of the batch loop, as far as
\* its page queries go.
ScrapePageSelectCall ==
    /\ arg.kind = "page"
    /\ LET used == UsedSelector(arg.matching)
       IN  returned' = [op |-> "scrapePage",
                        tried |-> SelectorsTried(arg.matching),
                        usedSelector |-> used,
                        businessCount |-> IF arg.matching = {} THEN 0 ELSE arg.count,
                        requeried |-> IF arg.matching = {} THEN <<>>
                                      ELSE Requeried(used, arg.count)]
    /\ UNCHANGED <<arg, scraperVars, fileVars>>

\* The name, phone and address extractBusinessInfo read from two listing
\* elements of one page: fields that are empty, that read like the token put
\* in for an empty field, or that hold the character the key is joined with.
Triples ==
    [businessName : {"", "unknown", "Acme", "Acme_907"},
     phone        : {"", "no-phone", "907", "907_907"},
     address      : {"", "no-address", "1 Main St"}]

ListingPairs ==
    {[kind |-> "pair", first |-> a, second |-> b] :
        a \in {t \in Triples : HasIdentity(t)}, b \in {t \in Triples : HasIdentity(t)}}

\* processBusinessListing on the first listing, then on the second, up to the
\* identity check of the second.
BusinessIdCall ==
    /\ arg.kind = "pair"
    /\ LET seen == {BusinessId(arg.first)}
       IN  returned' = [op |-> "businessId",
                        first |-> BusinessId(arg.first),
                        second |-> BusinessId(arg.second),
                        skipped |-> AlreadyProcessed(BusinessId(arg.second), seen)]
    /\ UNCHANGED <<arg, scraperVars, fileVars>>

\* The arguments of the calls.
Args ==
    {[kind |-> "text", text |-> t] : t \in Texts} \cup Addresses \cup Elements
        \cup Listings \cup ResultPages \cup ListingPairs

\* formatAddress(address)
FormatAddressCall ==
    /\ arg.kind = "address"
    /\ returned' = [op |-> "formatAddress", value |-> formatAddressChars(arg.chars)]
    /\ UNCHANGED <<arg, scraperVars, fileVars>>

\* formatAddress(formatAddress(address))
FormatAddressAgainCall ==
    /\ returned.op = "formatAddress"
    /\ returned' = [op |-> "formatAddressTwice", first |-> returned.value,
                    value |-> formatAddressChars(returned.value)]
    /\ UNCHANGED <<arg, scraperVars, fileVars>>

\* extractEmails(text)
ExtractEmailsCall ==
    /\ arg.kind = "text"
    /\ returned' = [op |-> "extractEmails", value |-> extractEmails(arg.text)]
    /\ UNCHANGED <<arg, scraperVars, fileVars>>

\* extractPhones(text)
ExtractPhonesCall ==
    /\ arg.kind = "text"
    /\ returned' = [op |-> "extractPhones", value |-> extractPhones(arg.text)]
    /\ UNCHANGED <<arg, scraperVars, fileVars>>

InitCall == IdleScraper /\ InitFiles /\ arg \in Args /\ returned = NoCall

NextCall ==
    \/ ExtractEmailsCall
    \/ ExtractPhonesCall
    \/ FormatAddressCall
    \/ FormatAddressAgainCall
    \/ ExtractHiddenEmailCall
    \/ ProcessListingCall
    \/ ScrapePageSelectCall
    \/ BusinessIdCall

SpecCall == InitCall /\ [][NextCall]_vars

\* =================================================================== claims

\* C1: the bypass strategies run in the order 1, 2, 3, 4, the title is
\* re-checked after each one before the next starts, and the first re-check
\* that shows no interstitial marker ends the ladder: no further strategy is
\* invoked and the scrape is Ready.
C1_LadderShortCircuits ==
    /\ ladder = [k \in 1..Len(ladder) |-> k]
    /\ Len(ladder) <= NumStrategies
    /\ Len(checks) <= Len(ladder)
    /\ Len(ladder) <= Len(checks) + 1
    /\ \A k \in 1..Len(checks) : (k < Len(checks)) => checks[k]
    /\ (Len(checks) > 0 /\ ~checks[Len(checks)]) =>
          /\ Len(ladder) = Len(checks)
          /\ ready
          /\ pc \notin {"bypassStep", "bypassCheck"}

\* The title cleared after strategy 2; the scrape ran to its end and
\* strategies 3 and 4 never ran.
C1_Witness ==
    /\ pc = "done"
    /\ ladder = <<1, 2>>
    /\ checks = <<TRUE, FALSE>>
    /\ ready

\* C2: when scrape() has returned or thrown, the browser is not open.
C2_BrowserClosedOnEveryExit ==
    (pc = "done") => (result # "pending" /\ browser # "open")

\* The export failed after contacts were collected: scrape() threw, and the
\* browser is closed.
C2_Witness ==
    /\ pc = "done"
    /\ result = "error"
    /\ scrapedContacts # <<>>
    /\ browser = "closed"

\* C3: of the listings of one session that carry the same BusinessIdentity,
\* at most one contributes contacts (yellowpages and manta).
C3_OneContributorPerIdentity ==
    \A a, b \in 1..Len(handled) :
        (a < b /\ handled[a].id # "none" /\ handled[a].id = handled[b].id
               /\ handled[a].n > 0)
          => handled[b].n = 0

\* C4: of two Yellow Pages listings with the same identity, the later one in
\* page order contributes nothing when the earlier one was processed without
\* failure, whatever the order in which their tasks reach the identity check.
C4_FirstInPageOrderWins ==
    \A i, j \in DOMAIN taskPc :
        (/\ i < j
         /\ taskPc[i] = "done" /\ taskPc[j] = "done"
         /\ taskNote[i] # "failed"
         /\ ElemId(taskElem[i]) # "none"
         /\ ElemId(taskElem[i]) = ElemId(taskElem[j]))
          => taskOut[j] = <<>>

\* C5: when the fourth re-check still shows a marker, scrape() throws: the
\* page never counts as ready, no listing is queried or processed, nothing is
\* added to the session, and no CSV file is written.
C5_ExhaustedLadderIsHardError ==
    (Len(checks) = NumStrategies /\ checks[NumStrategies]) =>
        /\ pc \in {"finally", "done"}
        /\ result = "error"
        /\ ~ready
        /\ businessListings = <<>>
        /\ taskPc = <<>>
        /\ handled = <<>>
        /\ scrapedContacts = <<>>
        /\ csvFiles = <<>>

\* All four strategies ran, the fourth re-check still showed a marker, and
\* scrape() ended with an error.
C5_Witness ==
    /\ pc = "done"
    /\ Len(checks) = NumStrategies
    /\ checks[NumStrategies]
    /\ result = "error"

RECURSIVE FlattenOut(_, _)
FlattenOut(lo, hi) ==
    IF lo > hi THEN <<>> ELSE taskOut[lo] \o FlattenOut(lo + 1, hi)

\* C6: a listing task that fails resolves to no contacts; while tasks are in
\* flight scrapePage neither throws nor returns; and when scrapePage has
\* returned every listing still on the page, of every batch, was processed
\* and the session list holds the contacts of all tasks.
C6_ListingFailureIsolated ==
    /\ \A i \in DOMAIN taskPc : (taskNote[i] = "failed") => taskOut[i] = <<>>
    /\ (\E i \in DOMAIN taskPc : taskPc[i] \in {"info", "email"}) =>
          (pc = "await" /\ result = "pending")
    /\ (pc = "export") =>
          /\ \A i \in DOMAIN taskPc :
                taskPc[i] = "done" \/ (taskPc[i] = "skipped" /\ i > Len(dom))
          /\ scrapedContacts = FlattenOut(1, Len(taskOut))

\* A listing of the first batch failed, another listing of that batch and a
\* listing of the second batch still contributed contacts.
C6_Witness ==
    /\ pc = "export"
    /\ \E i, j \in 1..BatchSize :
          /\ taskNote[i] = "failed"
          /\ taskNote[j] = "ok" /\ taskOut[j] # <<>>
    /\ \E m \in DOMAIN taskPc :
          m > BatchSize /\ taskNote[m] = "ok" /\ taskOut[m] # <<>>

InFlight == {i \in DOMAIN taskPc : taskPc[i] \in {"info", "email"}}

BatchOf(i) == (i - 1) \div BatchSize

\* C7: no task of a later batch has started while a task of an earlier batch
\* is unsettled, and at most batchSize tasks are in flight.
C7_BatchesSequentialAndBounded ==
    /\ Cardinality(InFlight) <= BatchSize
    /\ \A i, j \in DOMAIN taskPc :
          (BatchOf(i) < BatchOf(j) /\ taskPc[j] # "none")
            => taskPc[i] \in {"done", "skipped"}

\* The second batch is running (after a first batch of batchSize tasks).
C7_Witness ==
    /\ \E j \in DOMAIN taskPc : BatchOf(j) = 1 /\ taskPc[j] \in {"info", "email"}
    /\ \A i \in 1..BatchSize : taskPc[i] = "done"

RECURSIVE Count(_, _)
Count(xs, c) ==
    IF xs = <<>> THEN 0 ELSE (IF Head(xs) = c THEN 1 ELSE 0) + Count(Tail(xs), c)

Range(xs) == {xs[k] : k \in DOMAIN xs}

\* C8: when scrapePage has returned, every contact occurs in scrapedContacts
\* exactly as often as the listing tasks returned it, newContactsCount is the
\* number of contacts appended, and processedBusinesses holds exactly the
\* identities of the tasks that passed the identity check.
C8_NoLostOrDuplicatedUpdate ==
    /\ processedBusinesses =
          {BusinessId(taskElem[i]) :
              i \in {k \in DOMAIN taskPc : taskPc[k] = "email" \/ taskNote[k] = "ok"}}
    /\ (pc = "export") =>
          /\ \A c \in Range(scrapedContacts) \cup Range(FlattenOut(1, Len(taskOut))) :
                Count(scrapedContacts, c) = Count(FlattenOut(1, Len(taskOut)), c)
          /\ newContactsCount = Len(scrapedContacts)

\* Two tasks of one batch both contributed contacts, and scrapePage returned.
C8_Witness ==
    /\ pc = "export"
    /\ newContactsCount >= 2
    /\ \E i, j \in DOMAIN taskPc :
          /\ i < j /\ BatchOf(i) = BatchOf(j)
          /\ taskOut[i] # <<>> /\ taskOut[j] # <<>>

\* C9: a secondary (profile) page is open only while the listing that opened
\* it is inside scrapeBusinessProfile.
C9_SecondaryPagesClosed ==
    (secondary > 0) => pc \in {"mGoto", "mEval", "mClose"}

\* C10: every record of the session list and every CSV row carries a
\* business name or a phone, and a listing with neither contributes nothing.
C10_NoAnonymousRecord ==
    /\ \A k \in DOMAIN scrapedContacts :
          scrapedContacts[k].businessName # "" \/ scrapedContacts[k].phone # ""
    /\ \A f \in DOMAIN csvFiles : \A k \in DOMAIN csvFiles[f] :
          csvFiles[f][k].businessName # "" \/ csvFiles[f][k].phone # ""
    /\ \A i \in DOMAIN taskOut : \A k \in DOMAIN taskOut[i] :
          taskOut[i][k].businessName # "" \/ taskOut[i][k].phone # ""
    /\ \A a \in DOMAIN handled : (handled[a].id = "none") => handled[a].n = 0

\* A page with a listing without name and phone and a listing with a phone
\* only was exported: the file holds the phone-only record.
C10_Witness ==
    /\ \E a \in DOMAIN handled : handled[a].id = "none"
    /\ \E f \in DOMAIN csvFiles : \E k \in DOMAIN csvFiles[f] :
          csvFiles[f][k].businessName = "" /\ csvFiles[f][k].phone # ""

\* C11: in every CSV file the serial numbers, read in row order, are exactly
\* 1..(number of records), after exportContacts and after any sequence of
\* appendContacts calls.
C11_SerialsContiguous ==
    \A f \in DOMAIN disk :
        (disk[f].ext = "csv") =>
            \A k \in DOMAIN disk[f].rows : disk[f].rows[k].Sno = ToString(k)

\* C12: a call of appendContacts on a file that does not exist ends with an
\* error, whatever contacts it is handed, and leaves the disk as it was.
C12_AppendToMissingFileFails ==
    (ret.op = "append" /\ ~ret.existed) =>
        (ret.kind = "error" /\ ret.unchanged)


\* The CSV files the last merge matched, as they are on the disk.
MatchedFiles == getCSVFiles(disk, ret.opts.pattern, TRUE)

\* The names of the sheets of the workbook of the last merge.
SheetNames == [k \in 1..Len(ret.sheets) |-> ret.sheets[k].name]

\* C13: a merge of exported CSV files without separate sheets writes one
\* sheet "Contacts" that has as many rows as the files have together, and
\* whose serial numbers, read in row order, are 1..total.
C13_CombinedSheetRenumbered ==
    (ret.op = "merge" /\ ret.kind = "path" /\ ~ret.opts.separateSheets) =>
        /\ SheetNames = <<"Contacts">>
        /\ Len(ret.sheets[1].rows) = TotalRecords(MatchedFiles)
        /\ \A k \in DOMAIN ret.sheets[1].rows :
               ret.sheets[1].rows[k].Sno = ToString(k)

\* C14: the workbook merged from one exported CSV file is saved in the
\* directory that file is in, and in the output root only when no location
\* can be derived from the file's name.
C14_WorkbookBesideCsv ==
    (ret.op = "merge" /\ ret.kind = "path" /\ Len(MatchedFiles) = 1) =>
        IF extractLocationFromFilePath(MatchedFiles[1].name).city # "Unknown"
        THEN ret.dir = MatchedFiles[1].dir
        ELSE ret.dir = OutputDir

\* C15: a workbook merged with separate sheets has one sheet per source of
\* the matched files and the sheet "All_Combined", also when there is one
\* source only; without separate sheets it has the one sheet "Contacts".
C15_SeparateSheetsAlways ==
    (ret.op = "merge" /\ ret.kind = "path") =>
        IF ret.opts.separateSheets
        THEN SheetNames = SheetSources(MatchedFiles) \o <<"All_Combined">>
        ELSE SheetNames = <<"Contacts">>


\* What C16 compares of a merge: the files read, and of every sheet its
\* name, its number of rows and the file each row came from.
Shape(r) ==
    [files |-> r.files,
     sheets |-> [k \in 1..Len(r.sheets) |->
                    [name |-> r.sheets[k].name,
                     count |-> Len(r.sheets[k].rows),
                     groups |-> [j \in 1..Len(r.sheets[k].rows) |->
                                    r.sheets[k].rows[j].sourceFile]]]]

\* C16: when mergeToXLSX has written a workbook and is run again with the
\* same options over the same CSV files, it reads the same files, and the
\* workbook it writes has the same sheets, rows per sheet and grouping and
\* is saved in the same place.
C16_MergeTwiceSame ==
    (ret.op = "merge" /\ prior.op = "merge") =>
        /\ ret.dirOk => ret.files = prior.files
        /\ (ret.kind = "path") => (Shape(ret) = Shape(prior) /\ ret.dir = prior.dir)

\* Two sources were merged twice with separate sheets; the first workbook
\* was on the disk when the second merge listed the files.
C16_Witness ==
    /\ ret.op = "merge" /\ prior.op = "merge"
    /\ ret.kind = "path"
    /\ ret.opts.separateSheets
    /\ SheetNames = <<"YellowPages", "Manta", "All_Combined">>
    /\ Len(ret.files) = 3
    /\ \E f \in DOMAIN disk : disk[f].ext = "xlsx"


\* The files of a listing without the one that could not be read.
Readable(files, bad) ==
    SelectSeq([k \in 1..Len(files) |-> [at |-> k, file |-> files[k]]],
              LAMBDA e : e.at # bad)

\* The records of the files of a listing that could be read.
ReadableRecords(files, bad) ==
    TotalRecords([k \in 1..Len(Readable(files, bad)) |-> Readable(files, bad)[k].file])

\* C17: a merge in which one CSV file cannot be read does not end with an
\* error, and when the other files hold records it writes a workbook whose
\* combined sheet has the records of all of them.
C17_UnreadableFileSkipped ==
    (ret.op = "merge" /\ ret.unreadable # 0) =>
        /\ ret.kind # "error"
        /\ (ReadableRecords(MatchedFiles, ret.unreadable) > 0) =>
              /\ ret.kind = "path"
              /\ Len(ret.sheets[Len(ret.sheets)].rows)
                    = ReadableRecords(MatchedFiles, ret.unreadable)

\* C18: getStatistics with one CSV file that cannot be read returns
\* statistics, with the records counted over the files that can be read.
C18_StatisticsSkipUnreadable ==
    (ret.op = "stats" /\ ret.unreadable # 0) =>
        /\ ret.kind = "stats"
        /\ ret.totalRecords = ReadableRecords(getCSVFiles(disk, "", TRUE), ret.unreadable)

\* C19: scrape() returns null only after the one navigation succeeded and
\* the page gave no listing or no contact; mergeToXLSX returns null, and
\* getStatistics null or zero files, only when the directory and every
\* file could be read and there is no record to merge or no file to count.
C19_EmptyIsNotFailure ==
    /\ (pc = "done" /\ result = "null") =>
          /\ navigations = <<TRUE>>
          /\ businessListings = <<>> \/ csvFiles = <<>>
    /\ (ret.op = "merge" /\ ret.kind = "null") =>
          /\ ret.dirOk /\ ret.unreadable = 0
          /\ TotalRecords(MatchedFiles) = 0
    /\ (ret.op = "stats" /\ (ret.kind = "null" \/ ret.totalFiles = 0)) =>
          /\ ret.dirOk /\ ret.unreadable = 0
          /\ getCSVFiles(disk, "", TRUE) = <<>>


\* C20: when the initial navigation fails, it was the only navigation, the
\* scrape ends with an error, and no bypass step was run, no listing was
\* queried or processed and no file was written.
C20_NavigationFailureFails ==
    (navigations # <<>> /\ ~navigations[Len(navigations)]) =>
        /\ navigations = <<FALSE>>
        /\ pc \in {"finally", "done"}
        /\ result = "error"
        /\ ladder = <<>> /\ checks = <<>>
        /\ businessListings = <<>> /\ handled = <<>>
        /\ scrapedContacts = <<>> /\ allContacts = <<>>
        /\ csvFiles = <<>> /\ disk = <<>>

\* The navigation failed and scrape() has ended: the browser is closed and
\* the error is what the caller gets.
C20_Witness ==
    /\ navigations = <<FALSE>>
    /\ pc = "done"
    /\ result = "error"
    /\ browser = "closed"


\* C21: an exportContacts or appendContacts call in which a directory or
\* file operation failed ends with an error.
C21_IoFailurePropagates ==
    (ret.op \in {"export", "append"} /\ ret.failed) => ret.kind = "error"


\* No value occurs twice in the list.
NoRepeat(xs) == \A j, k \in DOMAIN xs : xs[j] = xs[k] => j = k

\* C22: the list extractEmails returns and the list extractPhones returns
\* hold no value twice, and every value of extractPhones is ten characters
\* long, all of them digits.
C22_ExtractedListsClean ==
    /\ (returned.op = "extractEmails") => NoRepeat(returned.value)
    /\ (returned.op = "extractPhones") =>
          /\ NoRepeat(returned.value)
          /\ \A k \in DOMAIN returned.value :
                /\ Len(Chars(returned.value[k])) = 10
                /\ \A c \in DOMAIN Chars(returned.value[k]) :
                      Chars(returned.value[k])[c] \in Digit

\* One number matched in two notations, once with the country code, and a
\* match whose digits are nine after the leading 1 is dropped: one phone.
C22_Witness ==
    /\ returned.op = "extractPhones"
    /\ arg.text.phones = <<"1-907-555-1234", "155-555-1234">>
    /\ arg.text.altPhones = <<"907-555-1234">>
    /\ returned.value = <<"9075551234">>


\* C23: formatAddress turns "3300 Arctic Blvd Ste 102Anchorage, AK 99503"
\* into "3300 Arctic Blvd, Ste 102, Anchorage, AK 99503", returns every
\* address that has all its commas as it is, and applied to its own result
\* returns that result.
C23_FormatAddressStable ==
    /\ (returned.op = "formatAddress"
          /\ arg.chars = AddressChars("3300 Arctic Blvd Ste 102Anchorage, AK 99503")) =>
              Concat(returned.value) = "3300 Arctic Blvd, Ste 102, Anchorage, AK 99503"
    /\ (returned.op = "formatAddress" /\ arg.wellFormed) => returned.value = arg.chars
    /\ (returned.op = "formatAddressTwice") => returned.value = returned.first


\* C24: the header line of every exported file is sno, businessName,
\* website, address, email, phone, source, scrapedAt; an export writes one
\* row per contact, and an append adds one row per contact and nothing
\* else to the file.
C24_HeaderRowExact ==
    /\ \A f \in DOMAIN disk :
          (disk[f].ext = "csv") =>
              disk[f].header = <<"sno", "businessName", "website", "address",
                                 "email", "phone", "source", "scrapedAt">>
    /\ (ret.op = "export" /\ ret.kind = "path") =>
          Len(disk[Locate(disk, ret.dir, ret.name, "csv")].rows) = ret.count
    /\ (ret.op = "append" /\ ret.kind = "returned" /\ ~ret.unchanged) =>
          Len(disk[ret.at].rows) = ret.before + ret.count

RECURSIVE Emitted(_)
\* The records the listings handled so far in this call have brought.
Emitted(log) == IF log = <<>> THEN 0 ELSE log[1].n + Emitted(Tail(log))

\* C25: a scrape() call, the second on the same object included, writes a
\* CSV file holding only the contacts extracted during that call, and skips a
\* listing as already processed only when an earlier listing of the same call
\* carries its identity.
C25_CallStartsEmpty ==
    /\ \A f \in DOMAIN csvFiles : Len(csvFiles[f]) = Emitted(handled)
    /\ \A i \in DOMAIN taskPc :
          (taskPc[i] = "done" /\ taskNote[i] = "dup") =>
             \E j \in DOMAIN taskPc :
                j # i /\ taskPc[j] \in {"email", "done"}
                      /\ ElemId(taskElem[j]) = ElemId(taskElem[i])


\* What a strategy finds in the element.
Finds(step, nodes, clicked) ==
    IF step = "mailto" THEN DirectMailto(nodes)
    ELSE IF step = "expand" THEN ExpandedMailto(nodes, clicked)
    ELSE AttributeMailto(nodes)

\* C26: extractHiddenEmail runs its strategies in the order direct mailto
\* link, click-to-expand followed by a re-check, attribute scan; it returns
\* what the first strategy that finds an address found, so the result of a
\* strategy is returned only when the strategies before it found nothing
\* (yellowpages and manta).
C26_HiddenEmailPriority ==
    (returned.op = "extractHiddenEmail" /\ ~returned.lost) =>
        LET order == <<"mailto", "expand", "attributes">>
            n     == Len(returned.tried)
        IN  /\ returned.tried = SubSeq(order, 1, n)
            /\ \A k \in 1..(n - 1) : Finds(order[k], arg.nodes, returned.clicked) = ""
            /\ returned.value = Finds(order[n], arg.nodes, returned.clicked)
            /\ returned.value = "" => n = 3


\* The extractor's value of a field for the k-th record ('' when the record
\* was not yielded by the extractor, or the extractor does not set the field).
ExtractorValue(k, field) ==
    IF k \in DOMAIN returned.extracted THEN returned.extracted[k][field] ELSE ""

\* The value the listing's structured data holds for a field.
StructuredValue(field) ==
    IF field = "email" THEN returned.hiddenEmail ELSE arg.info[field]

\* C27: in every record processBusinessListing emits, each of email, phone,
\* address, website and businessName is the Contact Extractor's value for
\* the record when that is not empty, else the structured value of the
\* listing (the hidden e-mail for email), else the empty string; no emitted
\* record has a fullName, firstName or lastName field.
C27_BackfillOrder ==
    (returned.op = "processBusinessListing") =>
        \A k \in DOMAIN returned.value :
            /\ \A field \in {"email", "phone", "address", "website", "businessName"} :
                  returned.value[k][field] =
                      IF ExtractorValue(k, field) # "" THEN ExtractorValue(k, field)
                      ELSE StructuredValue(field)
            /\ DOMAIN returned.value[k] \cap {"fullName", "firstName", "lastName"} = {}


\* C28: where the Contact Extractor's value of a field and the structured
\* value of the listing are both non-empty and differ, the emitted record
\* carries the structured value.
C28_StructuredWins ==
    (returned.op = "processBusinessListing") =>
        \A k \in DOMAIN returned.value :
            \A field \in {"email", "phone"} :
                (/\ ExtractorValue(k, field) # ""
                 /\ StructuredValue(field) # ""
                 /\ ExtractorValue(k, field) # StructuredValue(field))
                  => returned.value[k][field] = StructuredValue(field)


Shares(c, d) ==
    (c.email # "" /\ c.email = d.email) \/ (c.phone # "" /\ c.phone = d.phone)

\* C30: in the Manta profile flow a contact of the profile page that shares
\* its e-mail or its phone with a contact the listing already has adds no
\* record, the merge fills only fields that were empty (a non-empty value is
\* never overwritten), and a profile contact that shares neither with any
\* other contact is appended.
C30_ProfileMergeFillsOnly ==
    (returned.op = "processBusinessListing" /\ returned.visited) =>
        LET had     == extractAllContacts(arg.info.fullText, arg.source)
            profile == extractAllContacts(arg.info.profileText, arg.source)
            merged  == returned.extracted
            fresh   == {j \in DOMAIN profile :
                          \A k \in DOMAIN had : ~Shares(had[k], profile[j])}
            alone   == {j \in fresh :
                          \A m \in DOMAIN profile : m # j => ~Shares(profile[m], profile[j])}
        IN  /\ Len(merged) >= Len(had)
            /\ Len(merged) - Len(had) <= Cardinality(fresh)
            /\ \A k \in DOMAIN had : \A f \in DOMAIN had[k] :
                  IF had[k][f] # "" THEN merged[k][f] = had[k][f]
                  ELSE merged[k][f] = "" \/ \E j \in DOMAIN profile : merged[k][f] = profile[j][f]
            /\ \A j \in alone :
                  \E k \in DOMAIN merged : k > Len(had) /\ merged[k] = profile[j]


\* "(NNN) NNN-NNNN"
IsFormattedPhone(p) ==
    LET cs == Chars(p)
    IN  /\ Len(cs) = 14
        /\ cs[1] = "(" /\ cs[5] = ")" /\ cs[6] = " " /\ cs[10] = "-"
        /\ \A k \in {2, 3, 4, 7, 8, 9, 11, 12, 13, 14} : cs[k] \in Digit

\* C31: the phone of every record processBusinessListing hands to the
\* session list, and of every row the exporter makes of it, is empty or a
\* 10-digit number written "(NNN) NNN-NNNN", whether it comes from the
\* Contact Extractor or from the listing's structured phone field.
C31_PhoneNormalised ==
    (returned.op = "processBusinessListing") =>
        LET rows == ExportRows(returned.value)
        IN  \A k \in DOMAIN returned.value :
                /\ returned.value[k].phone = "" \/ IsFormattedPhone(returned.value[k].phone)
                /\ rows[k].phone = "" \/ IsFormattedPhone(rows[k].phone)


\* C32: scrapePage queries the page with the listing selectors in the
\* order of the list, stops at the first that matches an element and adopts
\* it, and every re-query of a batch uses the adopted selector and no other.
C32_SelectorFixedForPage ==
    (returned.op = "scrapePage") =>
        LET n == Len(returned.tried)
        IN  /\ returned.tried = SubSeq(businessSelectors, 1, n)
            /\ \A k \in 1..(n - 1) : k \notin arg.matching
            /\ IF arg.matching = {}
               THEN n = Len(businessSelectors) /\ returned.requeried = <<>>
               ELSE /\ n \in arg.matching
                    /\ returned.usedSelector = businessSelectors[n]
                    /\ \A b \in DOMAIN returned.requeried :
                          returned.requeried[b] = returned.usedSelector

\* The page matches the third and the fourth selector; the third was
\* adopted and both batches were queried with it.
C32_Witness ==
    /\ returned.op = "scrapePage"
    /\ arg.matching = {3, 4}
    /\ returned.tried = <<".search-results .result", ".organic .result", ".listing">>
    /\ returned.usedSelector = ".listing"
    /\ returned.requeried = <<".listing", ".listing">>


\* C33: when handleProtectionPage reports failure (scrape() ends with an
\* error raised while the ladder was under way), all four strategies were
\* attempted and each of the four re-checks showed an interstitial title: an
\* error inside an earlier step does not end the ladder.
C33_FailureOnlyAfterAllSteps ==
    (result = "error" /\ strategy > 0 /\ ~ready) =>
        /\ ladder = <<1, 2, 3, 4>>
        /\ Len(checks) = NumStrategies
        /\ \A k \in DOMAIN checks : checks[k]


\* The listing elements handed to processBusinessListing, by index.
Handed == {j \in DOMAIN taskPc : taskPc[j] = "done"}

\* C34: when the batch loop has ended, every listing the first query found
\* was handed to processBusinessListing at most once, and every one of them
\* that is still on the page was handed to it, although the page gained or
\* lost elements between the batches.
C34_EachListingOnce ==
    (pc = "export") =>
        \A i \in DOMAIN businessListings :
            LET hits == {j \in Handed : taskElem[j] = businessListings[i]}
            IN  /\ Cardinality(hits) <= 1
                /\ (\E k \in DOMAIN dom : dom[k] = businessListings[i]) => hits # {}


\* C35: two listings that differ in name, phone or address get different
\* BusinessIdentity keys, and the second is skipped as a duplicate only when
\* all three fields equal those of the first, also when a field holds the
\* separator or reads like the token put in for an empty field.
C35_IdentityInjective ==
    (returned.op = "businessId") =>
        /\ (arg.first # arg.second) => returned.first # returned.second
        /\ returned.skipped => arg.first = arg.second


\* C36: after mergeBySource has written a workbook, the city and state in
\* the workbook's file name are the city and state of the directory it was
\* written into and of every CSV file that was merged, also under a source
\* filter and with files of several locations or sources under the root.
C36_NameMatchesLocation ==
    (arg.op = "mergeBySource" /\ ret.op = "merge" /\ ret.kind = "path") =>
        LET merged == getCSVFiles(disk, ret.opts.pattern, TRUE)
            city   == arg.outputFileName[2]
            state  == arg.outputFileName[3]
        IN  /\ \A k \in DOMAIN merged :
                  extractLocationFromFilePath(merged[k].name) = [city |-> city, state |-> state]
            /\ \E folder \in {"YellowPages", "Manta"} :
                  ret.dir = PathJoin(PathJoin(OutputDir, folder), city \o " " \o state)


\* C37: in the Manta profile merge a profile contact without e-mail whose
\* phone differs from the phone of every contact the listing has is not
\* merged into one of them: the listing's contacts stay as they were and
\* the profile contact is added as a record of its own.
C37_EmptyEmailIsNoMatch ==
    (returned.op = "processBusinessListing" /\ returned.visited) =>
        LET had     == extractAllContacts(arg.info.fullText, arg.source)
            profile == extractAllContacts(arg.info.profileText, arg.source)
        IN  (/\ Len(profile) = 1
             /\ profile[1].email = ""
             /\ \A k \in DOMAIN had : had[k].phone # profile[1].phone)
              => returned.extracted = Append(had, profile[1])


\* The tasks whose result holds the record.
Producers(r) ==
    {j \in DOMAIN taskOut : \E m \in DOMAIN taskOut[j] : taskOut[j][m] = r}

\* C38: the records of the session list stand in the page order of the
\* listings that produced them, whatever the order in which the tasks of a
\* batch completed, and the exported file numbers them in that order.
C38_RecordsInPageOrder ==
    /\ \A a, b \in DOMAIN scrapedContacts :
          (a < b) => \E i \in Producers(scrapedContacts[a]),
                        j \in Producers(scrapedContacts[b]) : i < j
    /\ \A f \in DOMAIN csvFiles : \A k \in DOMAIN csvFiles[f] :
          /\ csvFiles[f][k].sno = k
          /\ csvFiles[f][k].businessName = scrapedContacts[k].businessName

\* Both batches have ended: the six listings' records are in the session
\* list and in the exported file in page order.
C38_Witness ==
    /\ pc = "done"
    /\ Len(csvFiles) = 1
    /\ [k \in DOMAIN scrapedContacts |-> scrapedContacts[k].businessName]
          = <<"Alder", "Birch", "Cedar", "Dogwood", "Elm", "Fir">>
    /\ [k \in DOMAIN csvFiles[1] |-> csvFiles[1][k].businessName]
          = <<"Alder", "Birch", "Cedar", "Dogwood", "Elm", "Fir">>


\* C39: every scrape() ends, with a file exported, with nothing to export
\* or with an error; on the way the bypass ladder takes at most four steps,
\* the batch loop does not go back, and the Manta page loop stays within
\* maxPages.
C39_ScrapeTerminates ==
    /\ <>(pc = "done" /\ result \in {"path", "null", "error"})
    /\ [](/\ Len(ladder) <= NumStrategies
          /\ strategy <= NumStrategies
          /\ batchStart <= Len(businessListings) + BatchSize - 1
          /\ currentPage <= maxPages)
    /\ [][/\ batchStart' \in {batchStart, batchStart + BatchSize}
          /\ currentPage' \in {currentPage, currentPage + 1}
          /\ Len(ladder') \in {Len(ladder), Len(ladder) + 1}]_vars

\* A scrape of a page of two batches that has ended with an exported file.
C39_Witness ==
    /\ pc = "done"
    /\ result = "path"
    /\ batchStart = 2 * BatchSize
    /\ Len(csvFiles) = 1


====
